---- MODULE Spec2Model ----
(***************************************************************************)
(* Portfolio simulation core of agent-lab: the monthly rebalancer, the     *)
(* capital allocator, the static allocation model, PortfolioEngine.run and *)
(* the backtest loop _simulate_strategy.                                   *)
(*                                                                         *)
(* Python floats are modelled as exact rationals <<n, d>> (d > 0, lowest   *)
(* terms); Python dicts are modelled as sequences of <<key, value>> pairs  *)
(* in insertion order.                                                     *)
(***************************************************************************)
EXTENDS Integers, Sequences, FiniteSets, TLC

(***************************************************************************)
(* Bounds of the model.                                                    *)
(***************************************************************************)
MaxPeriods == 2
MaxPrice == 2
MaxDates == 4

(***************************************************************************)
(* Exact rational arithmetic (float idealised).                            *)
(***************************************************************************)
IAbs(i) == IF i < 0 THEN 0 - i ELSE i

RECURSIVE Gcd(_, _)
Gcd(a, b) == IF b = 0 THEN a ELSE Gcd(b, a % b)

R(n, d) ==
    LET g == Gcd(IAbs(n), IAbs(d))
        s == IF d < 0 THEN 0 - 1 ELSE 1
    IN  <<(s * n) \div g, (s * d) \div g>>

RZero == R(0, 1)
ROne == R(1, 1)
RNeg(a) == <<0 - a[1], a[2]>>
RAdd(a, b) ==
    LET g == Gcd(a[2], b[2])
    IN  R(a[1] * (b[2] \div g) + b[1] * (a[2] \div g), (a[2] \div g) * b[2])
RSub(a, b) == RAdd(a, RNeg(b))
RMul(a, b) ==
    LET x == R(a[1], b[2])
        y == R(b[1], a[2])
    IN  R(x[1] * y[1], x[2] * y[2])
RDiv(a, b) == RMul(a, R(b[2], b[1]))
RAbs(a) == <<IAbs(a[1]), a[2]>>
RLt(a, b) == a[1] * b[2] < b[1] * a[2]
RLe(a, b) == a[1] * b[2] <= b[1] * a[2]

RECURSIVE RSum(_)
RSum(s) == IF s = <<>> THEN RZero ELSE RAdd(Head(s), RSum(Tail(s)))

\* |x| <= 1e-9, for x in lowest terms
WithinTolerance(x) == x[1] = 0 \/ (x[2] \div IAbs(x[1])) >= 1000000000

(***************************************************************************)
(* Python dicts: sequences of <<key, value>> pairs, insertion-ordered.     *)
(***************************************************************************)
DictKeys(d) == [i \in 1..Len(d) |-> d[i][1]]
DictValues(d) == [i \in 1..Len(d) |-> d[i][2]]
KeySet(d) == {d[i][1] : i \in 1..Len(d)}
DictHas(d, k) == k \in KeySet(d)
DictGet(d, k) == d[CHOOSE i \in 1..Len(d) : d[i][1] = k][2]
DictGetDefault(d, k, dflt) == IF DictHas(d, k) THEN DictGet(d, k) ELSE dflt
\* d[k] = v : replaces in place when the key exists, appends otherwise
DictSet(d, k, v) ==
    IF DictHas(d, k)
    THEN [i \in 1..Len(d) |-> IF d[i][1] = k THEN <<k, v>> ELSE d[i]]
    ELSE Append(d, <<k, v>>)

\* {f(k): g(k, v) for k, v in d.items()}-style comprehension, built left to right
RECURSIVE DictFromPairs(_)
DictFromPairs(pairs) ==
    IF pairs = <<>> THEN <<>>
    ELSE LET n == Len(pairs)
         IN  DictSet(DictFromPairs(SubSeq(pairs, 1, n - 1)), pairs[n][1], pairs[n][2])

\* Python dict equality ignores insertion order
DictEq(a, b) ==
    /\ KeySet(a) = KeySet(b)
    /\ \A k \in KeySet(a) : DictGet(a, k) = DictGet(b, k)

(***************************************************************************)
(* Dates (datetime.date) and None.                                         *)
(***************************************************************************)
None == [year |-> 0, month |-> 0, day |-> 0]
\* the k-th day of the calendar: 1 Jan, 2 Jan and 1 Feb of successive years
DateAt(k) ==
    [year |-> 2026 + ((k - 1) \div 3),
     month |-> IF (k - 1) % 3 = 2 THEN 2 ELSE 1,
     day |-> IF (k - 1) % 3 = 1 THEN 2 ELSE 1]
Dates == {DateAt(k) : k \in 1..MaxDates}
DateLt(a, b) ==
    \/ a.year < b.year
    \/ a.year = b.year /\ a.month < b.month
    \/ a.year = b.year /\ a.month = b.month /\ a.day < b.day
Pad2(n) == IF n < 10 THEN "0" \o ToString(n) ELSE ToString(n)
isoformat(d) == ToString(d.year) \o "-" \o Pad2(d.month) \o "-" \o Pad2(d.day)

(***************************************************************************)
(* Symbols.  sorted() on symbols is alphabetical.                          *)
(***************************************************************************)
SymbolOrder == <<"AGG", "SPY", "TLT">>
Symbols == {SymbolOrder[i] : i \in 1..Len(SymbolOrder)}
SymbolRank(s) == CHOOSE i \in 1..Len(SymbolOrder) : SymbolOrder[i] = s

RECURSIVE sorted(_)
sorted(S) ==
    IF S = {} THEN <<>>
    ELSE LET m == CHOOSE x \in S : \A y \in S : SymbolRank(x) <= SymbolRank(y)
         IN  <<m>> \o sorted(S \ {m})

(***************************************************************************)
(* MonthlyRebalancer                                                       *)
(***************************************************************************)
\* mutant: compares the month alone, ignoring the year
should_rebalance_month_only(as_of_date, last_rebalance_date) ==
    IF last_rebalance_date = None
    THEN TRUE
    ELSE as_of_date.month # last_rebalance_date.month

\* mutant: any change of date triggers
should_rebalance_any_date(as_of_date, last_rebalance_date) ==
    IF last_rebalance_date = None
    THEN TRUE
    ELSE as_of_date # last_rebalance_date

should_rebalance(as_of_date, last_rebalance_date) ==
    IF last_rebalance_date = None
    THEN TRUE
    ELSE <<as_of_date.year, as_of_date.month>>
            # <<last_rebalance_date.year, last_rebalance_date.month>>

\* mutant: delta taken as current - target
generate_trades_sign(current_positions, target_positions) ==
    LET symbols == sorted(KeySet(current_positions) \cup KeySet(target_positions))
    IN  [i \in 1..Len(symbols) |->
            <<symbols[i],
              RSub(DictGetDefault(current_positions, symbols[i], RZero),
                   DictGetDefault(target_positions, symbols[i], RZero))>>]

\* mutant: only the target's symbols are traded
generate_trades_target_only(current_positions, target_positions) ==
    LET symbols == sorted(KeySet(target_positions))
    IN  [i \in 1..Len(symbols) |->
            <<symbols[i],
              RSub(DictGetDefault(target_positions, symbols[i], RZero),
                   DictGetDefault(current_positions, symbols[i], RZero))>>]

\* mutant: the target is bought on top of what is held
generate_trades_ignore_current(current_positions, target_positions) ==
    LET symbols == sorted(KeySet(current_positions) \cup KeySet(target_positions))
    IN  [i \in 1..Len(symbols) |->
            <<symbols[i], DictGetDefault(target_positions, symbols[i], RZero)>>]

generate_trades(current_positions, target_positions) ==
    LET symbols == sorted(KeySet(current_positions) \cup KeySet(target_positions))
    IN  [i \in 1..Len(symbols) |->
            <<symbols[i],
              RSub(DictGetDefault(target_positions, symbols[i], RZero),
                   DictGetDefault(current_positions, symbols[i], RZero))>>]

(***************************************************************************)
(* BetaEngine6040 and the no-op overlays                                   *)
(***************************************************************************)
Ok(v) == [error |-> "none", value |-> v]
Err(e) == [error |-> e, value |-> <<>>]

\* mutant: configured weights returned without normalisation
target_weights_raw(weights) ==
    LET total == RSum(DictValues(weights))
    IN  IF RLe(total, RZero)
        THEN Err("ValueError: Configured weights must sum to a positive value")
        ELSE Ok(weights)

\* mutant: only a zero sum is refused, a negative sum is normalised
target_weights_nonzero(weights) ==
    LET total == RSum(DictValues(weights))
    IN  IF total = RZero
        THEN Err("ValueError: Configured weights must sum to a positive value")
        ELSE Ok([i \in 1..Len(weights) |-> <<weights[i][1], RDiv(weights[i][2], total)>>])

target_weights(weights) ==
    LET total == RSum(DictValues(weights))
    IN  IF RLe(total, RZero)
        THEN Err("ValueError: Configured weights must sum to a positive value")
        ELSE Ok([i \in 1..Len(weights) |-> <<weights[i][1], RDiv(weights[i][2], total)>>])

RiskOverlayNone_apply(weights) == weights
RegimeOverlayNone_apply(weights) == weights

(***************************************************************************)
(* CapitalAllocator                                                        *)
(***************************************************************************)
RECURSIVE allocate_loop(_, _, _, _, _)
allocate_loop(weights, portfolio_value, prices, i, allocations) ==
    IF i > Len(weights) THEN Ok(allocations)
    ELSE LET symbol == weights[i][1]
             weight == weights[i][2]
         IN  IF ~DictHas(prices, symbol) THEN Err("KeyError: Missing price")
             ELSE LET px == DictGet(prices, symbol)
                  IN  IF RLe(px, RZero) THEN Err("ValueError: Invalid non-positive price")
                      ELSE LET target_notional == RMul(portfolio_value, weight)
                               target_units == RDiv(target_notional, px)
                           IN  allocate_loop(weights, portfolio_value, prices, i + 1,
                                   DictSet(allocations, symbol,
                                       [weight |-> weight,
                                        target_notional |-> target_notional,
                                        target_units |-> target_units]))

\* mutant: a negative portfolio value is allocated like any other
allocate_any_value(weights, portfolio_value, prices) ==
    allocate_loop(weights, portfolio_value, prices, 1, <<>>)

\* mutant: target units rounded down to whole units
allocate_whole_units(weights, portfolio_value, prices) ==
    IF RLt(portfolio_value, RZero)
    THEN Err("ValueError: portfolio_value must be non-negative")
    ELSE LET a == allocate_loop(weights, portfolio_value, prices, 1, <<>>)
         IN  IF a.error # "none" THEN a
             ELSE Ok([i \in 1..Len(a.value) |->
                        <<a.value[i][1],
                          [a.value[i][2] EXCEPT !.target_units = R(@[1] \div @[2], 1)]>>])

allocate(weights, portfolio_value, prices) ==
    IF RLt(portfolio_value, RZero)
    THEN Err("ValueError: portfolio_value must be non-negative")
    ELSE allocate_loop(weights, portfolio_value, prices, 1, <<>>)

(***************************************************************************)
(* Registry and pipeline factory                                           *)
(***************************************************************************)
ALLOCATION_MODELS == {"beta_engine_60_40"}
OVERLAYS == {"risk_overlay_none", "regime_overlay_none"}
REBALANCERS == {"monthly"}
ALLOCATORS == {"capital_allocator"}

\* keyword arguments each registered constructor takes
ConstructorFields(module_type) ==
    IF module_type = "beta_engine_60_40" THEN {"weights"} ELSE {}

_build_typed(registry, module_type, params) ==
    IF module_type \notin registry THEN Err("KeyError: Unknown module type")
    ELSE IF KeySet(params) # ConstructorFields(module_type)
         THEN Err("TypeError: constructor arguments")
         ELSE Ok([type |-> module_type, params |-> params])

RECURSIVE build_overlays(_, _, _)
build_overlays(overlay_cfgs, i, overlays) ==
    IF i > Len(overlay_cfgs) THEN Ok(overlays)
    ELSE LET o == _build_typed(OVERLAYS, overlay_cfgs[i].type, overlay_cfgs[i].params)
         IN  IF o.error # "none" THEN Err(o.error)
             ELSE build_overlays(overlay_cfgs, i + 1, Append(overlays, o.value))

build_pipeline(cfg) ==
    LET allocation_model == _build_typed(ALLOCATION_MODELS, cfg.allocation_model.type,
                                         cfg.allocation_model.params)
        overlays == build_overlays(cfg.overlays, 1, <<>>)
        rebalancer == _build_typed(REBALANCERS, cfg.rebalancer.type, cfg.rebalancer.params)
        allocator == _build_typed(ALLOCATORS, cfg.allocator.type, cfg.allocator.params)
    IN  IF allocation_model.error # "none" THEN Err(allocation_model.error)
        ELSE IF overlays.error # "none" THEN Err(overlays.error)
        ELSE IF rebalancer.error # "none" THEN Err(rebalancer.error)
        ELSE IF allocator.error # "none" THEN Err(allocator.error)
        ELSE Ok([allocation_model |-> allocation_model.value,
                 overlays |-> overlays.value,
                 rebalancer |-> rebalancer.value,
                 allocator |-> allocator.value])

overlay_apply(overlay, weights) ==
    IF overlay.type = "risk_overlay_none" THEN RiskOverlayNone_apply(weights)
    ELSE RegimeOverlayNone_apply(weights)

RECURSIVE apply_overlays(_, _, _)
apply_overlays(overlays, i, weights) ==
    IF i > Len(overlays) THEN weights
    ELSE apply_overlays(overlays, i + 1, overlay_apply(overlays[i], weights))

(***************************************************************************)
(* PortfolioEngine.run                                                     *)
(***************************************************************************)
\* mutant: trades generated whatever the rebalance decision
run_trades_always(sr, current_positions, target_positions) ==
    generate_trades(current_positions, target_positions)

\* trades = {} unless should_rebalance
run_trades(sr, current_positions, target_positions) ==
    IF sr THEN generate_trades(current_positions, target_positions) ELSE <<>>

RunFailed(e) ==
    [error |-> e, as_of_date |-> "", weights |-> <<>>, allocations |-> <<>>,
     should_rebalance |-> FALSE, trades |-> <<>>]

run(config, as_of_date, prices, portfolio_value, current_positions, last_rebalance_date) ==
    LET pipeline == build_pipeline(config)
    IN  IF pipeline.error # "none" THEN RunFailed(pipeline.error)
        ELSE
        LET tw == target_weights(DictGet(pipeline.value.allocation_model.params, "weights"))
        IN  IF tw.error # "none" THEN RunFailed(tw.error)
            ELSE
            LET weights == apply_overlays(pipeline.value.overlays, 1, tw.value)
                sr == should_rebalance(as_of_date, last_rebalance_date)
                allocations == allocate(weights, portfolio_value, prices)
            IN  IF allocations.error # "none" THEN RunFailed(allocations.error)
                ELSE
                LET target_positions ==
                        [i \in 1..Len(allocations.value) |->
                            <<allocations.value[i][1], allocations.value[i][2].target_units>>]
                    trades == run_trades(sr, current_positions, target_positions)
                IN  [error |-> "none",
                     as_of_date |-> isoformat(as_of_date),
                     weights |-> weights,
                     allocations |-> allocations.value,
                     should_rebalance |-> sr,
                     trades |-> trades]

(***************************************************************************)
(* Raw configuration values, as yaml.safe_load returns them: a pair of the  *)
(* value's Python type and the value.                                      *)
(***************************************************************************)
PyNone == <<"none", <<>>>>
PyNull == <<"NoneType", <<>>>>
PyInt(n) == <<"int", n>>
PyStr(s) == <<"str", s>>
PyBool(b) == <<"bool", b>>
PyFloat(r) == <<"float", r>>
PyDict(pairs) == <<"dict", pairs>>
PyList(items) == <<"list", items>>

isinstance(x, types) == x[1] \in types

\* d.get(key, default) and "key in d" on a raw mapping
py_get(d, key, default) == DictGetDefault(d[2], key, default)
py_in(key, d) == DictHas(d[2], key)

\* str(x) of a bool, of an int or of a float with at most one decimal
py_str(x) ==
    IF x[1] = "str" THEN x[2]
    ELSE IF x[1] = "bool" THEN (IF x[2] THEN "True" ELSE "False")
    ELSE IF x[1] = "int" THEN ToString(x[2])
    ELSE LET tenths == (x[2][1] * 10) \div x[2][2]
         IN  (IF tenths < 0 THEN "-" ELSE "")
                 \o ToString(IAbs(tenths) \div 10) \o "." \o ToString(IAbs(tenths) % 10)

\* the value a raw mapping, list or scalar stands for, type tags dropped
RECURSIVE plain(_)
plain(x) ==
    IF x[1] = "dict" THEN [i \in 1..Len(x[2]) |-> <<x[2][i][1], plain(x[2][i][2])>>]
    ELSE IF x[1] = "list" THEN [i \in 1..Len(x[2]) |-> plain(x[2][i])]
    ELSE x[2]

(***************************************************************************)
(* compat.normalize_legacy_config (raw is a mapping)                       *)
(***************************************************************************)
\* mutant: the module's params are dropped
typed_module_no_params(module_type, params) ==
    PyDict(<< <<"type", module_type>>, <<"params", PyDict(<<>>)>> >>)

typed_module(module_type, params) ==
    PyDict(<< <<"type", module_type>>, <<"params", PyDict(params)>> >>)

\* mutant: no pass-through of a configuration that has allocation_model
normalize_legacy_config_rebuild(raw) ==
    LET strategy == py_get(raw, "strategy", PyDict(<<>>))
        overlays == py_get(raw, "overlays", PyDict(<<>>))
        rebalancer == py_get(raw, "rebalancer", PyDict(<<>>))
    IN  IF ~isinstance(strategy, {"dict"}) \/ ~isinstance(overlays, {"dict"})
               \/ ~isinstance(rebalancer, {"dict"})
        THEN Err("AttributeError: object has no attribute 'get'")
        ELSE Ok(PyDict(<<
            <<"engine", py_get(raw, "engine",
                PyDict(<< <<"name", PyStr("portfolio_engine")>>,
                          <<"version", PyStr("0.1")>> >>))>>,
            <<"allocation_model",
                typed_module(py_get(strategy, "name", PyStr("beta_engine_60_40")),
                    << <<"weights", py_get(strategy, "weights", PyDict(<<>>))>> >>)>>,
            <<"overlays", PyList(<<
                typed_module(py_get(overlays, "risk", PyStr("risk_overlay_none")), <<>>),
                typed_module(py_get(overlays, "regime", PyStr("regime_overlay_none")), <<>>)
                >>)>>,
            <<"rebalancer",
                typed_module(py_get(rebalancer, "type", PyStr("monthly")), <<>>)>>,
            <<"allocator", typed_module(PyStr("capital_allocator"), <<>>)>>,
            <<"constraints", py_get(raw, "constraints",
                PyDict(<< <<"leverage", PyBool(FALSE)>> >>))>>
            >>))

normalize_legacy_config(raw) ==
    LET cfg == raw
    IN  IF py_in("allocation_model", cfg) THEN Ok(cfg)
        ELSE
        LET strategy == py_get(cfg, "strategy", PyDict(<<>>))
            overlays == py_get(cfg, "overlays", PyDict(<<>>))
            rebalancer == py_get(cfg, "rebalancer", PyDict(<<>>))
        IN  IF ~isinstance(strategy, {"dict"}) \/ ~isinstance(overlays, {"dict"})
               \/ ~isinstance(rebalancer, {"dict"})
            THEN Err("AttributeError: object has no attribute 'get'")
            ELSE Ok(PyDict(<<
                <<"engine", py_get(cfg, "engine",
                    PyDict(<< <<"name", PyStr("portfolio_engine")>>,
                              <<"version", PyStr("0.1")>> >>))>>,
                <<"allocation_model",
                    typed_module(py_get(strategy, "name", PyStr("beta_engine_60_40")),
                        << <<"weights", py_get(strategy, "weights", PyDict(<<>>))>> >>)>>,
                <<"overlays", PyList(<<
                    typed_module(py_get(overlays, "risk", PyStr("risk_overlay_none")), <<>>),
                    typed_module(py_get(overlays, "regime", PyStr("regime_overlay_none")), <<>>)
                    >>)>>,
                <<"rebalancer",
                    typed_module(py_get(rebalancer, "type", PyStr("monthly")), <<>>)>>,
                <<"allocator", typed_module(PyStr("capital_allocator"), <<>>)>>,
                <<"constraints", py_get(cfg, "constraints",
                    PyDict(<< <<"leverage", PyBool(FALSE)>> >>))>>
                >>))

(***************************************************************************)
(* config_schema.parse_engine_config and PortfolioEngine.from_yaml         *)
(***************************************************************************)
_parse_typed_module(value, field_name) ==
    IF ~isinstance(value, {"dict"}) THEN Err("TypeError: " \o field_name \o " must be a mapping")
    ELSE LET module_type == py_get(value, "type", PyNone)
             params == py_get(value, "params", PyDict(<<>>))
         IN  IF ~isinstance(module_type, {"str"}) \/ module_type[2] = ""
             THEN Err("ValueError: " \o field_name \o ".type must be a non-empty string")
             ELSE IF ~isinstance(params, {"dict"})
                  THEN Err("TypeError: " \o field_name \o ".params must be a mapping")
                  ELSE Ok([type |-> module_type[2], params |-> plain(params)])

RECURSIVE parse_overlays(_, _, _)
parse_overlays(overlays_raw, idx, overlays) ==
    IF idx > Len(overlays_raw) THEN Ok(overlays)
    ELSE LET o == _parse_typed_module(overlays_raw[idx],
                                      "overlays[" \o ToString(idx - 1) \o "]")
         IN  IF o.error # "none" THEN o
             ELSE parse_overlays(overlays_raw, idx + 1, Append(overlays, o.value))

parse_engine_config(config) ==
    LET root == config
        engine_raw == py_get(root, "engine", PyNone)
    IN  IF ~isinstance(engine_raw, {"dict"}) THEN Err("TypeError: engine must be a mapping")
        ELSE
        LET name == py_get(engine_raw, "name", PyNone)
            version0 == py_get(engine_raw, "version", PyNone)
            version == IF isinstance(version0, {"bool", "int", "float"})
                       THEN PyStr(py_str(version0)) ELSE version0
        IN  IF ~isinstance(name, {"str"}) \/ name[2] = ""
            THEN Err("ValueError: engine.name must be a non-empty string")
            ELSE IF ~isinstance(version, {"str"}) \/ version[2] = ""
            THEN Err("ValueError: engine.version must be a non-empty string")
            ELSE
            LET allocation_model ==
                    _parse_typed_module(py_get(root, "allocation_model", PyNone),
                                        "allocation_model")
                overlays_raw == py_get(root, "overlays", PyList(<<>>))
            IN  IF allocation_model.error # "none" THEN allocation_model
                ELSE IF ~isinstance(overlays_raw, {"list"})
                THEN Err("TypeError: overlays must be a list")
                ELSE
                LET overlays == parse_overlays(overlays_raw[2], 1, <<>>)
                    rebalancer == _parse_typed_module(py_get(root, "rebalancer", PyNone),
                                                      "rebalancer")
                    allocator == _parse_typed_module(py_get(root, "allocator", PyNone),
                                                     "allocator")
                    constraints_raw == py_get(root, "constraints", PyDict(<<>>))
                IN  IF overlays.error # "none" THEN overlays
                    ELSE IF rebalancer.error # "none" THEN rebalancer
                    ELSE IF allocator.error # "none" THEN allocator
                    ELSE IF ~isinstance(constraints_raw, {"dict"})
                    THEN Err("TypeError: constraints must be a mapping")
                    ELSE
                    LET leverage == py_get(constraints_raw, "leverage", PyBool(FALSE))
                    IN  IF ~isinstance(leverage, {"bool"})
                        THEN Err("TypeError: constraints.leverage must be a boolean")
                        ELSE Ok([engine |-> [name |-> name[2], version |-> version[2]],
                                 allocation_model |-> allocation_model.value,
                                 overlays |-> overlays.value,
                                 rebalancer |-> rebalancer.value,
                                 allocator |-> allocator.value,
                                 constraints |-> [leverage |-> leverage[2]]])

\* PortfolioEngine.from_yaml, from the loaded document on: the engine's config
from_yaml(raw) ==
    LET normalized == normalize_legacy_config(raw)
    IN  IF normalized.error # "none" THEN normalized
        ELSE parse_engine_config(normalized.value)

(***************************************************************************)
(* tests/test_parity_v0_v1: the v0 reference engine, run on the legacy     *)
(* configuration                                                           *)
(***************************************************************************)
RECURSIVE v0_allocations(_, _, _, _, _)
v0_allocations(weights, portfolio_value, prices, i, allocations) ==
    IF i > Len(weights) THEN Ok(allocations)
    ELSE LET symbol == weights[i][1]
             weight == weights[i][2]
         IN  IF ~DictHas(prices, symbol) THEN Err("KeyError")
             ELSE LET px == DictGet(prices, symbol)
                      target_notional == RMul(portfolio_value, weight)
                  IN  IF px = RZero THEN Err("ZeroDivisionError: float division by zero")
                      ELSE v0_allocations(weights, portfolio_value, prices, i + 1,
                               DictSet(allocations, symbol,
                                   [weight |-> weight,
                                    target_notional |-> target_notional,
                                    target_units |-> RDiv(target_notional, px)]))

_V0ReferenceEngine_run(config, as_of_date, prices, portfolio_value, current_positions, last_rebalance_date) ==
    IF ~py_in("strategy", config) \/ ~py_in("weights", py_get(config, "strategy", PyNone))
    THEN RunFailed("KeyError")
    ELSE
    LET weights0 == plain(py_get(py_get(config, "strategy", PyNone), "weights", PyNone))
        total == RSum(DictValues(weights0))
    IN  IF RLe(total, RZero)
        THEN RunFailed("ValueError: Configured weights must sum to a positive value")
        ELSE
        LET weights == [i \in 1..Len(weights0) |->
                           <<weights0[i][1], RDiv(weights0[i][2], total)>>]
            sr == IF last_rebalance_date = None THEN TRUE
                  ELSE <<as_of_date.year, as_of_date.month>>
                           # <<last_rebalance_date.year, last_rebalance_date.month>>
            allocations == v0_allocations(weights, portfolio_value, prices, 1, <<>>)
        IN  IF allocations.error # "none" THEN RunFailed(allocations.error)
            ELSE
            LET target_positions ==
                    [i \in 1..Len(allocations.value) |->
                        <<allocations.value[i][1], allocations.value[i][2].target_units>>]
                symbols == sorted(KeySet(current_positions) \cup KeySet(target_positions))
                trades == IF sr
                          THEN [i \in 1..Len(symbols) |->
                                  <<symbols[i],
                                    RSub(DictGetDefault(target_positions, symbols[i], RZero),
                                         DictGetDefault(current_positions, symbols[i], RZero))>>]
                          ELSE <<>>
            IN  [error |-> "none",
                 as_of_date |-> isoformat(as_of_date),
                 weights |-> weights,
                 allocations |-> allocations.value,
                 should_rebalance |-> sr,
                 trades |-> trades]

(***************************************************************************)
(* Backtest: portfolio loader and _simulate_strategy                       *)
(***************************************************************************)
INITIAL_CAPITAL == 10000

SYMBOL_MAP == <<<<"AGG", "TLT">>>>
_to_engine_symbol(ticker) == DictGetDefault(SYMBOL_MAP, ticker, ticker)

\* portfolio weight tables the CSV may hold (ticker -> weight, file order)
PortfolioDefs ==
    { << <<"SPY", R(3, 5)>>, <<"AGG", R(2, 5)>> >>,
      << <<"SPY", R(2, 1)>>, <<"TLT", R(0 - 1, 1)>> >>,
      << <<"AGG", R(0 - 1, 2)>>, <<"TLT", R(3, 2)>> >>,
      << <<"AGG", R(3, 2)>>, <<"TLT", R(0 - 1, 2)>> >>,
      << <<"SPY", R(3, 5)>>, <<"TLT", R(3, 10)>> >> }

\* load_portfolio_from_csv: abs(total - 1.0) > 1e-9 raises
load_portfolio_accepts(tickers) ==
    LET total == RSum(DictValues(tickers))
    IN  ~(~WithinTolerance(RSub(total, ROne)))

PriceValues == 0..MaxPrice

\* engine configuration obtained from config.yaml (60/40 SPY/TLT)
ParsedConfig(leverage) ==
    [engine |-> [name |-> "portfolio_engine", version |-> "0.1"],
     allocation_model |->
        [type |-> "beta_engine_60_40",
         params |-> << <<"weights", << <<"SPY", R(3, 5)>>, <<"TLT", R(2, 5)>> >> >> >>],
     overlays |-> << [type |-> "risk_overlay_none", params |-> <<>>],
                     [type |-> "regime_overlay_none", params |-> <<>>] >>,
     rebalancer |-> [type |-> "monthly", params |-> <<>>],
     allocator |-> [type |-> "capital_allocator", params |-> <<>>],
     constraints |-> [leverage |-> leverage]]

NoOut == RunFailed("unassigned")
NoResult == [df |-> <<>>, weights_df |-> <<>>, turnover |-> RZero]
NoCall ==
    [fn |-> "none", as_of_date |-> None, last_rebalance_date |-> None, prices |-> <<>>,
     portfolio_value |-> RZero, current_positions |-> <<>>, target_positions |-> <<>>,
     weights |-> <<>>, raw |-> PyNone]

NoEarlier == [call |-> NoCall, ret |-> NoOut, between |-> 0]

VARIABLES
    pc,             \* "start", "rejected", "loaded", "loop", "done", "aborted"
    portfolio,      \* portfolio["tickers"]
    config,         \* engine.config
    cash, positions, last_reb,
    equity, weight_rows, turnover_rows,
    as_of, px, pv, out,     \* locals of the current loop iteration
    raised,         \* exception that left _simulate_strategy, "none" otherwise
    result,         \* value returned by _simulate_strategy
    call, ret,      \* arguments and return value of the latest direct engine call
    earlier         \* some earlier direct call on the same engine, with its result

vars == <<pc, portfolio, config, cash, positions, last_reb, equity, weight_rows,
          turnover_rows, as_of, px, pv, out, raised, result, call, ret, earlier>>

\* mutant: the positions are left out of the valuation
portfolio_value_cash_only(c, pos, prices) == c
portfolio_value(c, pos, prices) ==
    RAdd(c, RSum([i \in 1..Len(pos) |-> RMul(pos[i][2], DictGet(prices, pos[i][1]))]))

\* mutant: positions updated, cash left alone
apply_trades_no_cash(trades, i, c, pos, prices) ==
    [cash |-> c,
     positions |-> [k \in 1..Len(pos) |->
                       <<pos[k][1], RAdd(pos[k][2], DictGetDefault(trades, pos[k][1], RZero))>>]]

\* for s, du in out["trades"].items(): cash -= du * px[s]; positions[s] = positions.get(s, 0.0) + du
RECURSIVE apply_trades(_, _, _, _, _)
apply_trades(trades, i, c, pos, prices) ==
    IF i > Len(trades) THEN [cash |-> c, positions |-> pos]
    ELSE LET s == trades[i][1]
             du == trades[i][2]
         IN  apply_trades(trades, i + 1,
                 RSub(c, RMul(du, DictGet(prices, s))),
                 DictSet(pos, s, RAdd(DictGetDefault(pos, s, RZero), du)),
                 prices)

\* mutant: signed deltas instead of absolute ones
turnover_entry_signed(trades, prices, value) ==
    LET turnover_notional ==
            RSum([i \in 1..Len(trades) |-> RMul(trades[i][2], DictGet(prices, trades[i][1]))])
    IN  IF RLt(RZero, value) THEN RDiv(turnover_notional, value) ELSE RZero

turnover_entry(trades, prices, value) ==
    LET turnover_notional ==
            RSum([i \in 1..Len(trades) |->
                    RMul(RAbs(trades[i][2]), DictGet(prices, trades[i][1]))])
    IN  IF RLt(RZero, value) THEN RDiv(turnover_notional, value) ELSE RZero

\* df["portfolio_value"].pct_change().fillna(0.0)
pct_change(eq, i) ==
    IF i = 1 THEN RZero
    ELSE IF eq[i - 1] = RZero
         THEN (IF eq[i] = RZero THEN RZero
               ELSE IF RLt(RZero, eq[i]) THEN "inf" ELSE "-inf")
         ELSE RSub(RDiv(eq[i], eq[i - 1]), ROne)

Init ==
    /\ pc = "start"
    /\ portfolio = <<>>
    /\ config = ParsedConfig(FALSE)
    /\ cash = RZero
    /\ positions = <<>>
    /\ last_reb = None
    /\ equity = <<>>
    /\ weight_rows = <<>>
    /\ turnover_rows = <<>>
    /\ as_of = None
    /\ px = <<>>
    /\ pv = RZero
    /\ out = NoOut
    /\ raised = "none"
    /\ result = NoResult
    /\ call = NoCall
    /\ ret = <<>>
    /\ earlier = NoEarlier

\* load_portfolio_from_csv
LoadPortfolio ==
    /\ pc = "start"
    /\ \E tickers \in PortfolioDefs :
        IF load_portfolio_accepts(tickers)
        THEN /\ portfolio' = tickers
             /\ pc' = "loaded"
             /\ UNCHANGED raised
        ELSE /\ pc' = "rejected"
             /\ raised' = "ValueError: Portfolio weights must sum to 1.0"
             /\ UNCHANGED portfolio
    /\ UNCHANGED <<config, cash, positions, last_reb, equity, weight_rows,
                   turnover_rows, as_of, px, pv, out, result, call, ret, earlier>>

\* _simulate_strategy, up to the loop
SimulateStart ==
    /\ pc = "loaded"
    /\ LET tickers == DictKeys(portfolio)
           engine_weights ==
               DictFromPairs([i \in 1..Len(portfolio) |->
                   <<_to_engine_symbol(portfolio[i][1]), portfolio[i][2]>>])
           engine_symbols == [i \in 1..Len(tickers) |-> _to_engine_symbol(tickers[i])]
       IN  /\ config' = [config EXCEPT !.allocation_model.params =
                             DictSet(@, "weights", engine_weights)]
           /\ positions' = DictFromPairs([i \in 1..Len(engine_symbols) |->
                                             <<engine_symbols[i], RZero>>])
    /\ cash' = R(INITIAL_CAPITAL, 1)
    /\ last_reb' = None
    /\ equity' = <<>>
    /\ weight_rows' = <<>>
    /\ turnover_rows' = <<>>
    /\ pc' = "loop"
    /\ UNCHANGED <<portfolio, as_of, px, pv, out, raised, result, call, ret, earlier>>

\* mutant: the failing period is skipped and the loop goes on
run_raises_skip(e) ==
    /\ pc' = "loop"
    /\ UNCHANGED <<raised, out, cash, positions, last_reb, equity, weight_rows, turnover_rows>>

\* engine.run raised: no try/except in the loop, the exception leaves _simulate_strategy
run_raises(e) ==
    /\ raised' = e
    /\ pc' = "aborted"
    /\ UNCHANGED <<out, cash, positions, last_reb, equity, weight_rows, turnover_rows>>

\* mutant: the rebalance block runs on every period, whatever run decided
Period_rebalance_block_unguarded ==
    /\ pc = "loop"
    /\ Len(weight_rows) < MaxPeriods
    /\ \E dt \in Dates, row \in [KeySet(portfolio) -> PriceValues] :
        /\ as_of = None \/ DateLt(as_of, dt)
        /\ LET tickers == DictKeys(portfolio)
               engine_to_portfolio ==
                   DictFromPairs([i \in 1..Len(tickers) |->
                       <<_to_engine_symbol(tickers[i]), tickers[i]>>])
               px1 == DictFromPairs([i \in 1..Len(tickers) |->
                          <<_to_engine_symbol(tickers[i]), R(row[tickers[i]], 1)>>])
               pv1 == portfolio_value(cash, positions, px1)
               out1 == run(config, dt, px1, pv1, positions, last_reb)
           IN  /\ as_of' = dt
               /\ px' = px1
               /\ pv' = pv1
               /\ IF out1.error # "none"
                  THEN run_raises(out1.error)
                  ELSE LET display_weights ==
                               DictFromPairs([i \in 1..Len(out1.weights) |->
                                   <<DictGetDefault(engine_to_portfolio,
                                                    out1.weights[i][1], out1.weights[i][1]),
                                     out1.weights[i][2]>>])
                           traded == apply_trades(out1.trades, 1, cash, positions, px1)
                       IN  /\ out' = out1
                           /\ weight_rows' = Append(weight_rows,
                                  [date |-> isoformat(dt), weights |-> display_weights])
                           /\ IF TRUE
                              THEN /\ turnover_rows' = Append(turnover_rows,
                                          turnover_entry(out1.trades, px1, pv1))
                                   /\ cash' = traded.cash
                                   /\ positions' = traded.positions
                                   /\ last_reb' = dt
                              ELSE UNCHANGED <<turnover_rows, cash, positions, last_reb>>
                           /\ equity' = Append(equity,
                                  portfolio_value(cash', positions', px1))
                           /\ UNCHANGED <<raised, pc>>
    /\ UNCHANGED <<portfolio, config, result, call, ret, earlier>>
\* one iteration of "for dt, row in prices.iterrows()"
Period ==
    /\ pc = "loop"
    /\ Len(weight_rows) < MaxPeriods
    /\ \E dt \in Dates, row \in [KeySet(portfolio) -> PriceValues] :
        /\ as_of = None \/ DateLt(as_of, dt)
        /\ LET tickers == DictKeys(portfolio)
               engine_to_portfolio ==
                   DictFromPairs([i \in 1..Len(tickers) |->
                       <<_to_engine_symbol(tickers[i]), tickers[i]>>])
               px1 == DictFromPairs([i \in 1..Len(tickers) |->
                          <<_to_engine_symbol(tickers[i]), R(row[tickers[i]], 1)>>])
               pv1 == portfolio_value(cash, positions, px1)
               out1 == run(config, dt, px1, pv1, positions, last_reb)
           IN  /\ as_of' = dt
               /\ px' = px1
               /\ pv' = pv1
               /\ IF out1.error # "none"
                  THEN run_raises(out1.error)
                  ELSE LET display_weights ==
                               DictFromPairs([i \in 1..Len(out1.weights) |->
                                   <<DictGetDefault(engine_to_portfolio,
                                                    out1.weights[i][1], out1.weights[i][1]),
                                     out1.weights[i][2]>>])
                           traded == apply_trades(out1.trades, 1, cash, positions, px1)
                       IN  /\ out' = out1
                           /\ weight_rows' = Append(weight_rows,
                                  [date |-> isoformat(dt), weights |-> display_weights])
                           /\ IF out1.should_rebalance
                              THEN /\ turnover_rows' = Append(turnover_rows,
                                          turnover_entry(out1.trades, px1, pv1))
                                   /\ cash' = traded.cash
                                   /\ positions' = traded.positions
                                   /\ last_reb' = dt
                              ELSE UNCHANGED <<turnover_rows, cash, positions, last_reb>>
                           /\ equity' = Append(equity,
                                  portfolio_value(cash', positions', px1))
                           /\ UNCHANGED <<raised, pc>>
    /\ UNCHANGED <<portfolio, config, result, call, ret, earlier>>

\* _simulate_strategy after the last row: build and return the result
Finish ==
    /\ pc = "loop"
    /\ result' =
        [df |-> [i \in 1..Len(equity) |->
                    [date |-> weight_rows[i].date,
                     portfolio_value |-> equity[i],
                     monthly_return |-> pct_change(equity, i)]],
         weights_df |-> weight_rows,
         turnover |-> IF turnover_rows # <<>> THEN RSum(turnover_rows) ELSE RZero]
    /\ pc' = "done"
    /\ UNCHANGED <<portfolio, config, cash, positions, last_reb, equity, weight_rows,
                   turnover_rows, as_of, px, pv, out, raised, call, ret, earlier>>

Next == LoadPortfolio \/ SimulateStart \/ Period \/ Finish

Spec == Init /\ [][Next]_vars

(***************************************************************************)
(* Direct calls of the engine and of the rebalancer (as the smoke tests    *)
(* make them), over bounded argument sets.                                 *)
(***************************************************************************)
MaxUnits == 2

\* dicts symbol -> units over every subset of the symbols, keys in sorted order
PositionDicts ==
    UNION {{[i \in 1..Len(sorted(S)) |-> <<sorted(S)[i], R(f[sorted(S)[i]], 1)>>] :
                f \in [S -> 0..MaxUnits]} : S \in SUBSET Symbols}

RunPositions ==
    { <<>>,
      << <<"SPY", R(6, 1)>>, <<"TLT", R(4, 1)>> >>,
      << <<"TLT", R(5, 1)>>, <<"AGG", R(1, 1)>> >> }

RunValues == {R(0 - 1, 1), RZero, R(10, 1)}

\* price dicts over SPY, TLT and AGG, any key possibly absent
RunPrices ==
    {(IF ha THEN << <<"SPY", R(a, 1)>> >> ELSE <<>>)
        \o (IF hb THEN << <<"TLT", R(b, 1)>> >> ELSE <<>>)
        \o (IF hc THEN << <<"AGG", R(c, 1)>> >> ELSE <<>>) :
        ha \in BOOLEAN, a \in {0 - 1} \cup PriceValues,
        hb \in BOOLEAN, b \in {0 - 1} \cup PriceValues,
        hc \in BOOLEAN, c \in {0 - 1} \cup PriceValues}

InitCalls ==
    /\ pc = "start"
    /\ portfolio = <<>>
    /\ config \in {ParsedConfig(l) : l \in BOOLEAN}
    /\ cash = RZero
    /\ positions = <<>>
    /\ last_reb = None
    /\ equity = <<>>
    /\ weight_rows = <<>>
    /\ turnover_rows = <<>>
    /\ as_of = None
    /\ px = <<>>
    /\ pv = RZero
    /\ out = NoOut
    /\ raised = "none"
    /\ result = NoResult
    /\ call = NoCall
    /\ ret = <<>>
    /\ earlier = NoEarlier

CallShouldRebalance ==
    /\ call = NoCall
    /\ \E a \in Dates, l \in Dates \cup {None} :
        /\ call' = [NoCall EXCEPT !.fn = "should_rebalance", !.as_of_date = a,
                                  !.last_rebalance_date = l]
        /\ ret' = should_rebalance(a, l)
    /\ UNCHANGED <<pc, portfolio, config, cash, positions, last_reb, equity, weight_rows,
                   turnover_rows, as_of, px, pv, out, raised, result, earlier>>

\* generate_trades(current, target) followed by generate_trades(target, current)
CallGenerateTrades ==
    /\ call = NoCall
    /\ \E c \in PositionDicts, t \in PositionDicts :
        /\ call' = [NoCall EXCEPT !.fn = "generate_trades", !.current_positions = c,
                                  !.target_positions = t]
        /\ ret' = [trades |-> generate_trades(c, t), reversed |-> generate_trades(t, c)]
    /\ UNCHANGED <<pc, portfolio, config, cash, positions, last_reb, equity, weight_rows,
                   turnover_rows, as_of, px, pv, out, raised, result, earlier>>

CallRun ==
    /\ call = NoCall
    /\ \E a \in Dates, l \in Dates \cup {None}, p \in RunPrices, v \in RunValues,
          c \in RunPositions :
        /\ call' = [NoCall EXCEPT !.fn = "run", !.as_of_date = a,
                                  !.last_rebalance_date = l, !.prices = p,
                                  !.portfolio_value = v, !.current_positions = c]
        /\ ret' = run(config, a, p, v, c, l)
    /\ UNCHANGED <<pc, portfolio, config, cash, positions, last_reb, equity, weight_rows,
                   turnover_rows, as_of, px, pv, out, raised, result, earlier>>

\* configured weight dicts over every subset of the symbols, in halves
WeightDicts ==
    UNION {{[i \in 1..Len(sorted(S)) |-> <<sorted(S)[i], R(f[sorted(S)[i]], 2)>>] :
                f \in [S -> (0 - 1)..MaxUnits]} : S \in SUBSET Symbols}

\* BetaEngine6040(weights=w).target_weights()
CallTargetWeights ==
    /\ call = NoCall
    /\ \E w \in WeightDicts :
        /\ call' = [NoCall EXCEPT !.fn = "target_weights", !.weights = w]
        /\ ret' = target_weights(w)
    /\ UNCHANGED <<pc, portfolio, config, cash, positions, last_reb, equity, weight_rows,
                   turnover_rows, as_of, px, pv, out, raised, result, earlier>>

\* weight dicts handed to the allocator
AllocWeights ==
    { <<>>,
      << <<"SPY", R(3, 5)>>, <<"TLT", R(2, 5)>> >>,
      << <<"AGG", RZero>>, <<"SPY", ROne>> >>,
      << <<"TLT", R(3, 2)>>, <<"AGG", R(0 - 1, 2)>> >>,
      << <<"SPY", R(1, 3)>>, <<"TLT", R(1, 3)>>, <<"AGG", R(1, 3)>> >> }

\* CapitalAllocator().allocate(weights=w, portfolio_value=v, prices=p)
CallAllocate ==
    /\ call = NoCall
    /\ \E w \in AllocWeights, v \in RunValues, p \in RunPrices :
        /\ call' = [NoCall EXCEPT !.fn = "allocate", !.weights = w,
                                  !.portfolio_value = v, !.prices = p]
        /\ ret' = allocate(w, v, p)
    /\ UNCHANGED <<pc, portfolio, config, cash, positions, last_reb, equity, weight_rows,
                   turnover_rows, as_of, px, pv, out, raised, result, earlier>>

\* a key of a raw mapping, left out when its value is PyNone
opt(key, value) == IF value = PyNone THEN <<>> ELSE << <<key, value>> >>

RawWeights ==
    { PyDict(<< <<"SPY", PyFloat(R(3, 5))>>, <<"TLT", PyFloat(R(2, 5))>> >>),
      PyDict(<< <<"TLT", PyFloat(R(1, 1))>>, <<"SPY", PyFloat(R(3, 1))>> >>) }

StrategyOpts ==
    {PyNone} \cup
    {PyDict(opt("name", n) \o opt("weights", w)) :
        n \in {PyNone, PyStr("beta_engine_60_40"), PyStr("momentum_12_1")},
        w \in {PyNone} \cup RawWeights}

OverlayOpts ==
    {PyNone} \cup
    {PyDict(opt("risk", a) \o opt("regime", b)) :
        a \in {PyNone, PyStr("risk_overlay_none"), PyStr("vol_target")},
        b \in {PyNone, PyStr("regime_overlay_none")}}

RebalancerOpts ==
    {PyNone, PyDict(<<>>), PyDict(<< <<"type", PyStr("monthly")>> >>),
     PyDict(<< <<"type", PyStr("weekly")>> >>)}

EngineOpts ==
    {PyNone,
     PyDict(<< <<"name", PyStr("portfolio_engine")>>, <<"version", PyStr("0.0")>> >>)}

ConstraintOpts == {PyNone, PyDict(<< <<"leverage", PyBool(TRUE)>> >>)}

\* legacy (v0) documents: no allocation_model key
LegacyConfigs ==
    {PyDict(opt("engine", e) \o opt("strategy", s) \o opt("overlays", o)
                \o opt("rebalancer", r) \o opt("constraints", c)) :
        e \in EngineOpts, s \in StrategyOpts, o \in OverlayOpts,
        r \in RebalancerOpts, c \in ConstraintOpts}

\* the legacy document of the parity test
V0Fixture ==
    PyDict(<<
        <<"engine", PyDict(<< <<"name", PyStr("portfolio_engine")>>,
                              <<"version", PyStr("0.0")>> >>)>>,
        <<"strategy", PyDict(<< <<"name", PyStr("beta_engine_60_40")>>,
                                <<"weights", PyDict(<< <<"SPY", PyFloat(R(3, 5))>>,
                                                       <<"TLT", PyFloat(R(2, 5))>> >>)>> >>)>>,
        <<"overlays", PyDict(<< <<"risk", PyStr("risk_overlay_none")>>,
                                <<"regime", PyStr("regime_overlay_none")>> >>)>>,
        <<"rebalancer", PyDict(<< <<"type", PyStr("monthly")>> >>)>>,
        <<"constraints", PyDict(<< <<"leverage", PyBool(FALSE)>> >>)>> >>)

\* canonical (v1) documents: an allocation_model key is present
CanonicalConfigs ==
    { PyDict(<<
        <<"engine", PyDict(<< <<"name", PyStr("portfolio_engine")>>,
                              <<"version", PyFloat(R(1, 10))>> >>)>>,
        <<"allocation_model", typed_module(a, << <<"weights", w>> >>)>>,
        <<"overlays", PyList(<< typed_module(o, <<>>) >>)>>,
        <<"rebalancer", typed_module(r, <<>>)>>,
        <<"allocator", typed_module(l, <<>>)>> >>) \o x :
        a \in {PyStr("beta_engine_60_40"), PyStr("momentum_12_1")},
        w \in RawWeights,
        o \in {PyStr("risk_overlay_none"), PyStr("vol_target")},
        r \in {PyStr("monthly"), PyStr("weekly")},
        l \in {PyStr("capital_allocator"), PyStr("lot_allocator")},
        x \in {<<>>, << <<"strategy", PyDict(<< <<"name", PyStr("momentum_12_1")>> >>)>> >>} }

RawConfigs == LegacyConfigs \cup CanonicalConfigs \cup {V0Fixture}

\* normalize_legacy_config(x), then normalize_legacy_config of its result
CallNormalize ==
    /\ call = NoCall
    /\ \E x \in RawConfigs :
        /\ call' = [NoCall EXCEPT !.fn = "normalize_legacy_config", !.raw = x]
        /\ ret' = LET once == normalize_legacy_config(x)
                  IN  [once |-> once,
                       twice |-> IF once.error # "none" THEN once
                                 ELSE normalize_legacy_config(once.value)]
    /\ UNCHANGED <<pc, portfolio, config, cash, positions, last_reb, equity, weight_rows,
                   turnover_rows, as_of, px, pv, out, raised, result, earlier>>

\* PortfolioEngine.from_yaml on a document x
CallFromYaml ==
    /\ call = NoCall
    /\ \E x \in RawConfigs :
        /\ call' = [NoCall EXCEPT !.fn = "from_yaml", !.raw = x]
        /\ ret' = from_yaml(x)
    /\ UNCHANGED <<pc, portfolio, config, cash, positions, last_reb, equity, weight_rows,
                   turnover_rows, as_of, px, pv, out, raised, result, earlier>>

\* legacy documents of the parity runs: registered module names throughout
ParityConfigs ==
    { V0Fixture,
      PyDict(<< <<"strategy", PyDict(<< <<"weights",
                    PyDict(<< <<"TLT", PyFloat(R(1, 1))>>,
                              <<"SPY", PyFloat(R(3, 1))>> >>)>> >>)>> >>) }

\* out_v0 = v0.run(**fixture); out_v1 = v1.run(**fixture)
CallParity ==
    /\ call = NoCall
    /\ \E x \in ParityConfigs, a \in Dates, l \in Dates \cup {None}, p \in RunPrices,
          v \in RunValues, c \in RunPositions :
        /\ call' = [NoCall EXCEPT !.fn = "parity", !.raw = x, !.as_of_date = a,
                                  !.last_rebalance_date = l, !.prices = p,
                                  !.portfolio_value = v, !.current_positions = c]
        /\ ret' = LET v1 == from_yaml(x)
                  IN  [v0 |-> _V0ReferenceEngine_run(x, a, p, v, c, l),
                       v1 |-> IF v1.error # "none" THEN RunFailed(v1.error)
                              ELSE run(v1.value, a, p, v, c, l)]
    /\ UNCHANGED <<pc, portfolio, config, cash, positions, last_reb, equity, weight_rows,
                   turnover_rows, as_of, px, pv, out, raised, result, earlier>>

NextCalls ==
    \/ CallShouldRebalance
    \/ CallGenerateTrades
    \/ CallRun
    \/ CallTargetWeights
    \/ CallAllocate
    \/ CallNormalize
    \/ CallFromYaml
    \/ CallParity

SpecCalls == InitCalls /\ [][NextCalls]_vars

(***************************************************************************)
(* Repeated calls of run on one engine                                     *)
(***************************************************************************)
MaxBetween == 2

\* mutant: a call leaves its target units behind as the configured weights
engine_after_run_stores_targets(cfg, returned) ==
    IF returned.error # "none" THEN cfg
    ELSE [cfg EXCEPT !.allocation_model.params =
             DictSet(@, "weights",
                 [i \in 1..Len(returned.allocations) |->
                     <<returned.allocations[i][1], returned.allocations[i][2].target_units>>])]

\* the engine's config after a call of run: run assigns no attribute of the
\* engine, of its config or of a component
engine_after_run(cfg, returned) == cfg

RepeatPrices ==
    { << <<"SPY", ROne>>, <<"TLT", ROne>> >>,
      << <<"SPY", ROne>>, <<"TLT", R(MaxPrice, 1)>> >>,
      << <<"SPY", ROne>> >> }

RepeatValues == {R(10, 1)}

\* engine.run(...) on the engine of the previous calls; some earlier call is
\* remembered together with the number of calls made since
EngineRun ==
    /\ \E a \in Dates, l \in {None, DateAt(1)}, p \in RepeatPrices, v \in RepeatValues :
        LET returned == run(config, a, p, v, << <<"SPY", R(6, 1)>>, <<"TLT", R(4, 1)>> >>, l)
        IN  /\ call' = [NoCall EXCEPT !.fn = "run", !.as_of_date = a,
                                      !.last_rebalance_date = l, !.prices = p,
                                      !.portfolio_value = v,
                                      !.current_positions =
                                          << <<"SPY", R(6, 1)>>, <<"TLT", R(4, 1)>> >>]
            /\ ret' = returned
            /\ config' = engine_after_run(config, returned)
    /\ \/ /\ call.fn = "run"
          /\ earlier' = [call |-> call, ret |-> ret, between |-> 0]
       \/ /\ earlier.call.fn = "run"
          /\ earlier.between < MaxBetween
          /\ earlier' = [earlier EXCEPT !.between = @ + 1]
       \/ /\ call.fn # "run"
          /\ earlier' = earlier
    /\ UNCHANGED <<pc, portfolio, cash, positions, last_reb, equity, weight_rows,
                   turnover_rows, as_of, px, pv, out, raised, result>>

\* an engine obtained from config.yaml, no call made yet
InitRuns ==
    /\ InitCalls
    /\ config = ParsedConfig(FALSE)

NextRuns == EngineRun

SpecRuns == InitRuns /\ [][NextRuns]_vars

(***************************************************************************)
(* Hierarchical allocator: input tables, loaders, node weights and         *)
(* run_allocator                                                           *)
(***************************************************************************)
MaxDefRows == 2

\* str.strip() on the cell texts of the tables
strip(s) ==
    IF s = " " THEN ""
    ELSE IF s = "N1 " THEN "N1"
    ELSE s

\* Python's order of the cell texts
StrOrder == <<"", " ", "N1", "N1 ", "N2", "N3", "N9", "P", "Q", "dynamic", "rule_based", "static">>
StrRank(s) == CHOOSE i \in 1..Len(StrOrder) : StrOrder[i] = s

RECURSIVE sorted_str(_)
sorted_str(S) ==
    IF S = {} THEN <<>>
    ELSE LET m == CHOOSE x \in S : \A y \in S : StrRank(x) <= StrRank(y)
         IN  <<m>> \o sorted_str(S \ {m})

\* a float("nan") cell
NaN == <<0, 0>>
isna(x) == x[2] = 0

ErrWith(e, v) == [error |-> e, value |-> v]

\* a CSV file as pandas reads it: its header and its rows
CsvFile(columns, rows) == [exists |-> TRUE, columns |-> columns, rows |-> rows]
MissingFile == [exists |-> FALSE, columns |-> {}, rows |-> <<>>]

\* df[col].isna().any() or (df[col].astype(str).str.strip() == "").any()
blank_in(rows, col) == \E i \in 1..Len(rows) : strip(rows[i][col]) = ""

\* the first column of cols, in order, that holds a blank cell ("" when none does)
RECURSIVE first_blank(_, _)
first_blank(rows, cols) ==
    IF cols = <<>> THEN ""
    ELSE IF blank_in(rows, Head(cols)) THEN Head(cols)
    ELSE first_blank(rows, Tail(cols))

REQUIRED_COLUMNS == <<"level1", "level2", "level3", "level4", "node_id">>

\* hierarchy[l1][l2][l3][l4][node_id] = {"node_id": node_id}, with setdefault on the way
hierarchy_insert(hierarchy, row) ==
    LET l1 == strip(row.level1)
        l2 == strip(row.level2)
        l3 == strip(row.level3)
        l4 == strip(row.level4)
        node_id == strip(row.node_id)
        d1 == DictGetDefault(hierarchy, l1, <<>>)
        d2 == DictGetDefault(d1, l2, <<>>)
        d3 == DictGetDefault(d2, l3, <<>>)
        d4 == DictGetDefault(d3, l4, <<>>)
        n4 == DictSet(d4, node_id, [node_id |-> node_id])
        n3 == DictSet(d3, l4, n4)
        n2 == DictSet(d2, l3, n3)
        n1 == DictSet(d1, l2, n2)
    IN  DictSet(hierarchy, l1, n1)

RECURSIVE build_hierarchy(_)
build_hierarchy(rows) ==
    IF rows = <<>> THEN <<>>
    ELSE LET n == Len(rows)
         IN  hierarchy_insert(build_hierarchy(SubSeq(rows, 1, n - 1)), rows[n])

load_hierarchy(file) ==
    IF ~file.exists THEN ErrWith("Hierarchy file not found", "")
    ELSE LET missing == SelectSeq(REQUIRED_COLUMNS, LAMBDA c : c \notin file.columns)
             df == file.rows
             duplicates == {df[j].node_id : j \in {j \in 1..Len(df) :
                                \E i \in 1..(j - 1) : df[i].node_id = df[j].node_id}}
         IN  IF missing # <<>>
             THEN ErrWith("Malformed hierarchy CSV: missing required columns", missing)
             ELSE IF df = <<>>
             THEN ErrWith("Malformed hierarchy CSV: file contains no rows", "")
             ELSE IF first_blank(df, REQUIRED_COLUMNS) # ""
             THEN ErrWith("Malformed hierarchy CSV: column contains blank values",
                          first_blank(df, REQUIRED_COLUMNS))
             ELSE IF duplicates # {}
             THEN ErrWith("Malformed hierarchy CSV: node_id must be unique",
                          sorted_str(duplicates))
             ELSE Ok(build_hierarchy(df))

\* the node_id keys under every level1/level2/level3/level4 path
_flatten_node_ids(hierarchy) ==
    UNION {UNION {UNION {UNION {{strip(k) : k \in KeySet(l4)}
        : l4 \in {DictValues(l3)[i] : i \in 1..Len(l3)}}
        : l3 \in {DictValues(l2)[i] : i \in 1..Len(l2)}}
        : l2 \in {DictValues(l1)[i] : i \in 1..Len(l1)}}
        : l1 \in {DictValues(hierarchy)[i] : i \in 1..Len(hierarchy)}}

MappingColumns == <<"node_id", "instrument_id", "instrument_type", "data_source">>

load_instrument_mapping(file) ==
    IF ~file.exists THEN ErrWith("Instrument mapping not found", "")
    ELSE LET missing == SelectSeq(MappingColumns, LAMBDA c : c \notin file.columns)
             df == file.rows
         IN  IF missing # <<>>
             THEN ErrWith("Malformed instrument mapping: missing required columns", missing)
             ELSE IF df = <<>>
             THEN ErrWith("Malformed instrument mapping: file contains no rows", "")
             ELSE IF first_blank(df, MappingColumns) # ""
             THEN ErrWith("Malformed instrument mapping: column contains blank values",
                          first_blank(df, MappingColumns))
             ELSE Ok(df)

DefinitionColumns == <<"portfolio_name", "node_id", "weight", "weight_type">>
WeightTypes == {"static", "rule_based"}

\* mutant: repeated (portfolio_name, node_id) pairs are let through
load_portfolio_definitions_keep_duplicates(file) ==
    IF ~file.exists THEN ErrWith("Portfolio definitions not found", "")
    ELSE LET missing == SelectSeq(DefinitionColumns, LAMBDA c : c \notin file.columns)
             df == file.rows
             bad_weight_type == {df[i].weight_type : i \in {i \in 1..Len(df) :
                                    df[i].weight_type \notin WeightTypes}}
             dupes == {i \in 1..Len(df) : \E j \in 1..Len(df) :
                          /\ j # i
                          /\ df[j].portfolio_name = df[i].portfolio_name
                          /\ df[j].node_id = df[i].node_id}
         IN  IF missing # <<>>
             THEN ErrWith("Malformed portfolio definitions: missing required columns", missing)
             ELSE IF df = <<>>
             THEN ErrWith("Malformed portfolio definitions: file contains no rows", "")
             ELSE IF first_blank(df, <<"portfolio_name", "node_id", "weight_type">>) # ""
             THEN ErrWith("Malformed portfolio definitions: column contains blank values",
                          first_blank(df, <<"portfolio_name", "node_id", "weight_type">>))
             ELSE IF bad_weight_type # {}
             THEN ErrWith("Invalid weight_type values", sorted_str(bad_weight_type))
             ELSE IF FALSE
             THEN ErrWith("Duplicate (portfolio_name, node_id) entries found",
                          {<<df[i].portfolio_name, df[i].node_id>> : i \in dupes})
             ELSE Ok(df)
load_portfolio_definitions(file) ==
    IF ~file.exists THEN ErrWith("Portfolio definitions not found", "")
    ELSE LET missing == SelectSeq(DefinitionColumns, LAMBDA c : c \notin file.columns)
             df == file.rows
             bad_weight_type == {df[i].weight_type : i \in {i \in 1..Len(df) :
                                    df[i].weight_type \notin WeightTypes}}
             dupes == {i \in 1..Len(df) : \E j \in 1..Len(df) :
                          /\ j # i
                          /\ df[j].portfolio_name = df[i].portfolio_name
                          /\ df[j].node_id = df[i].node_id}
         IN  IF missing # <<>>
             THEN ErrWith("Malformed portfolio definitions: missing required columns", missing)
             ELSE IF df = <<>>
             THEN ErrWith("Malformed portfolio definitions: file contains no rows", "")
             ELSE IF first_blank(df, <<"portfolio_name", "node_id", "weight_type">>) # ""
             THEN ErrWith("Malformed portfolio definitions: column contains blank values",
                          first_blank(df, <<"portfolio_name", "node_id", "weight_type">>))
             ELSE IF bad_weight_type # {}
             THEN ErrWith("Invalid weight_type values", sorted_str(bad_weight_type))
             ELSE IF dupes # {}
             THEN ErrWith("Duplicate (portfolio_name, node_id) entries found",
                          {<<df[i].portfolio_name, df[i].node_id>> : i \in dupes})
             ELSE Ok(df)

\* mutant: every key gets one half whatever the number of keys
_equal_weights_half(keys) ==
    IF keys = <<>> THEN <<>>
    ELSE DictFromPairs([i \in 1..Len(keys) |-> <<py_str(keys[i]), R(1, 2)>>])
\* weighting_logic._equal_weights
_equal_weights(keys) ==
    IF keys = <<>> THEN <<>>
    ELSE LET w == RDiv(ROne, R(Len(keys), 1))
         IN  DictFromPairs([i \in 1..Len(keys) |-> <<py_str(keys[i]), w>>])

weight_level_one(hierarchy) ==
    _equal_weights([i \in 1..Len(hierarchy) |-> PyStr(DictKeys(hierarchy)[i])])

weight_within_group(group) ==
    IF isinstance(group, {"dict"})
    THEN _equal_weights([i \in 1..Len(group[2]) |-> PyStr(DictKeys(group[2])[i])])
    ELSE _equal_weights([i \in 1..Len(group[2]) |-> PyInt(i - 1)])

\* mutant: the tolerance test of the static branch is skipped
derive_node_weights_any_sum(portfolio_df) ==
    LET weight_type_values == {portfolio_df[i].weight_type : i \in 1..Len(portfolio_df)}
        numeric == [i \in 1..Len(portfolio_df) |-> portfolio_df[i].weight]
    IN  IF Cardinality(weight_type_values) # 1
        THEN ErrWith("Portfolio contains mixed weight_type values", "")
        ELSE IF \E i \in 1..Len(numeric) : isna(numeric[i])
        THEN ErrWith("Static portfolio requires numeric weight for every row", "")
        ELSE Ok([node_weights |-> DictFromPairs([i \in 1..Len(portfolio_df) |->
                                      <<portfolio_df[i].node_id, numeric[i]>>]),
                 allocation_mode |-> "static"])
derive_node_weights(portfolio_df) ==
    LET weight_type_values == {portfolio_df[i].weight_type : i \in 1..Len(portfolio_df)}
        weight_type == CHOOSE t \in weight_type_values : TRUE
        numeric == [i \in 1..Len(portfolio_df) |-> portfolio_df[i].weight]
        total == RSum(numeric)
        node_ids == [i \in 1..Len(portfolio_df) |-> portfolio_df[i].node_id]
        w == weight_within_group(PyList(node_ids))
    IN  IF Cardinality(weight_type_values) # 1
        THEN ErrWith("Portfolio contains mixed weight_type values", "")
        ELSE IF weight_type = "static"
        THEN IF \E i \in 1..Len(numeric) : isna(numeric[i])
             THEN ErrWith("Static portfolio requires numeric weight for every row", "")
             ELSE IF ~WithinTolerance(RSub(total, ROne))
             THEN ErrWith("Static portfolio weights must sum to 1.0", total)
             ELSE Ok([node_weights |-> DictFromPairs([i \in 1..Len(portfolio_df) |->
                                           <<portfolio_df[i].node_id, numeric[i]>>]),
                      allocation_mode |-> "static"])
        ELSE Ok([node_weights |-> DictFromPairs([i \in 1..Len(node_ids) |->
                                      <<node_ids[i], DictGetDefault(w, py_str(PyInt(i - 1)), RZero)>>]),
                 allocation_mode |-> "rule_based_stub"])

\* every configured method falls through to the deterministic default
_dispatch_weighting_method(defs, beta_cfg) == derive_node_weights(defs)

\* the locals of one run_allocator call and the file it writes
NoFrame ==
    [pc |-> "load_hierarchy", hierarchy |-> <<>>, valid_node_ids |-> {}, mapping_df |-> <<>>,
     defs_df |-> <<>>, defs |-> <<>>, node_weights |-> <<>>, allocation_mode |-> "",
     rows |-> <<>>, portfolio_targets |-> {}, written |-> FALSE, error |-> "none",
     value |-> <<>>]

Raise(frame, e) == [frame EXCEPT !.pc = "raised", !.error = e.error, !.value = e.value]

\* defs_df[defs_df["portfolio_name"] == portfolio_name], then the unknown node_id test
select_definitions(frame, portfolio_name) ==
    LET defs == SelectSeq(frame.defs_df, LAMBDA r : r.portfolio_name = portfolio_name)
        unknown_nodes == sorted_str({defs[i].node_id : i \in {i \in 1..Len(defs) :
                                        defs[i].node_id \notin frame.valid_node_ids}})
    IN  IF defs = <<>>
        THEN Raise(frame, ErrWith("Portfolio definition not found", portfolio_name))
        ELSE IF unknown_nodes # <<>>
        THEN Raise(frame, ErrWith("Portfolio references unknown node_id values", unknown_nodes))
        ELSE [frame EXCEPT !.pc = "derive_node_weights", !.defs = defs]

\* the rows of the loop over node_weights.items(), node by node
RECURSIVE instrument_rows(_, _, _, _)
instrument_rows(portfolio_name, node_weights, mapping_for_nodes, allocation_mode) ==
    IF node_weights = <<>> THEN Ok(<<>>)
    ELSE LET n == Len(node_weights)
             before == instrument_rows(portfolio_name, SubSeq(node_weights, 1, n - 1),
                                       mapping_for_nodes, allocation_mode)
             node_id == node_weights[n][1]
             node_weight == node_weights[n][2]
             node_map == SelectSeq(mapping_for_nodes, LAMBDA r : r.node_id = node_id)
             per_instrument == RDiv(node_weight, R(Len(node_map), 1))
         IN  IF before.error # "none" THEN before
             ELSE IF node_map = <<>>
             THEN ErrWith("No instrument mapping found for node_id", node_id)
             ELSE Ok(before.value \o
                     [i \in 1..Len(node_map) |->
                         [portfolio_name |-> portfolio_name,
                          node_id |-> node_map[i].node_id,
                          instrument_id |-> node_map[i].instrument_id,
                          instrument_type |-> node_map[i].instrument_type,
                          target_weight |-> per_instrument,
                          allocation_mode |-> allocation_mode]])

\* mutant: a node without a mapped instrument is skipped
split_instruments_skip_unmapped(frame, portfolio_name) ==
    LET mapping_for_nodes == SelectSeq(frame.mapping_df,
                                 LAMBDA r : r.node_id \in KeySet(frame.node_weights))
        mapped == SelectSeq(frame.node_weights,
                      LAMBDA p : \E i \in 1..Len(mapping_for_nodes) :
                                     mapping_for_nodes[i].node_id = p[1])
        rows == instrument_rows(portfolio_name, mapped, mapping_for_nodes,
                                frame.allocation_mode)
    IN  [frame EXCEPT !.pc = "write", !.rows = rows.value]
split_instruments(frame, portfolio_name) ==
    LET mapping_for_nodes == SelectSeq(frame.mapping_df,
                                 LAMBDA r : r.node_id \in KeySet(frame.node_weights))
        rows == instrument_rows(portfolio_name, frame.node_weights, mapping_for_nodes,
                                frame.allocation_mode)
    IN  IF mapping_for_nodes = <<>>
        THEN Raise(frame, ErrWith("No instrument mappings found for selected node_ids", ""))
        ELSE IF rows.error # "none" THEN Raise(frame, rows)
        ELSE [frame EXCEPT !.pc = "write", !.rows = rows.value]

\* df.groupby([...identifying columns...])["target_weight"].sum(); the row order is left out
groupby_sum(rows) ==
    LET key(r) == <<r.portfolio_name, r.node_id, r.instrument_id, r.instrument_type,
                    r.allocation_mode>>
    IN  {[rows[i] EXCEPT !.target_weight =
              RSum(SelectSeq([j \in 1..Len(rows) |->
                                 IF key(rows[j]) = key(rows[i]) THEN rows[j].target_weight
                                 ELSE NaN],
                             LAMBDA x : ~isna(x)))]
         : i \in 1..Len(rows)}

\* inputs/asset_class_hierarchy.csv
HierarchyRow(level1, node_id) ==
    [level1 |-> level1, level2 |-> "Developed", level3 |-> "Core", level4 |-> "Broad",
     node_id |-> node_id]
AllColumns(cols) == {cols[i] : i \in 1..Len(cols)}
HierarchyFiles ==
    {MissingFile,
     CsvFile(AllColumns(REQUIRED_COLUMNS) \ {"node_id"}, <<>>),
     CsvFile(AllColumns(REQUIRED_COLUMNS) \ {"level4"}, <<HierarchyRow("Equity", "N1")>>),
     CsvFile(AllColumns(REQUIRED_COLUMNS), <<>>),
     CsvFile(AllColumns(REQUIRED_COLUMNS), <<HierarchyRow(" ", "N1"), HierarchyRow("Bond", "N1")>>),
     CsvFile(AllColumns(REQUIRED_COLUMNS), <<HierarchyRow("Equity", "N1"), HierarchyRow("Bond", "N1")>>),
     CsvFile(AllColumns(REQUIRED_COLUMNS), <<HierarchyRow("Equity", "N1 "), HierarchyRow("Bond", "N2")>>),
     CsvFile(AllColumns(REQUIRED_COLUMNS), <<HierarchyRow("Bond", "N3")>>),
     CsvFile(AllColumns(REQUIRED_COLUMNS),
             <<HierarchyRow("Equity", "N1"), HierarchyRow("Equity", "N2"),
               HierarchyRow("Bond", "N3")>>)}

\* inputs/instrument_mapping.csv
MappingRow(node_id, instrument_id) ==
    [node_id |-> node_id, instrument_id |-> instrument_id, instrument_type |-> "etf",
     data_source |-> "yahoo"]
MappingFiles ==
    {MissingFile,
     CsvFile(AllColumns(MappingColumns) \ {"data_source"}, <<MappingRow("N1", "SPY")>>),
     CsvFile(AllColumns(MappingColumns), <<>>),
     CsvFile(AllColumns(MappingColumns), <<MappingRow("N1", " "), MappingRow("N2", "TLT")>>),
     CsvFile(AllColumns(MappingColumns), <<MappingRow("N3", "GLD")>>),
     CsvFile(AllColumns(MappingColumns), <<MappingRow("N1", "SPY")>>),
     CsvFile(AllColumns(MappingColumns), <<MappingRow("N1", "SPY"), MappingRow("N2", "SPY")>>),
     CsvFile(AllColumns(MappingColumns),
             <<MappingRow("N1", "SPY"), MappingRow("N1", "VTI"), MappingRow("N2", "TLT")>>),
     CsvFile(AllColumns(MappingColumns),
             <<MappingRow("N1", "SPY"), MappingRow("N1", "SPY"), MappingRow("N1", "VTI"),
               MappingRow("N2", "TLT")>>)}

\* inputs/portfolio_definitions.csv
DefinitionRow(portfolio_name, node_id, weight, weight_type) ==
    [portfolio_name |-> portfolio_name, node_id |-> node_id, weight |-> weight,
     weight_type |-> weight_type]
DefinitionRows ==
    {DefinitionRow("P", n, R(1, 2), t) : n \in {"N1", "N2", "N9"}, t \in WeightTypes}
RECURSIVE SeqsUpTo(_, _)
SeqsUpTo(S, n) ==
    IF n = 0 THEN {<<>>}
    ELSE SeqsUpTo(S, n - 1) \cup
         {Append(s, x) : s \in {t \in SeqsUpTo(S, n - 1) : Len(t) = n - 1}, x \in S}
DefinitionTables ==
    (SeqsUpTo(DefinitionRows, MaxDefRows) \ {<<>>}) \cup
    {<<DefinitionRow("P", "N1", R(3, 5), "static"), DefinitionRow("P", "N2", R(2, 5), "static")>>,
     <<DefinitionRow("P", "N1", R(3, 2), "static"), DefinitionRow("P", "N2", R(0 - 1, 2), "static")>>,
     <<DefinitionRow("P", "N1", ROne, "static"), DefinitionRow("P", "N2", RZero, "static")>>,
     <<DefinitionRow("P", "N1", ROne, "static")>>,
     <<DefinitionRow("P", "N2", ROne, "rule_based")>>,
     <<DefinitionRow("P", "N1", NaN, "static"), DefinitionRow("P", "N2", ROne, "static")>>,
     <<DefinitionRow("P", "N1", NaN, "rule_based"), DefinitionRow("P", "N2", NaN, "rule_based")>>,
     <<DefinitionRow("P", "N1", ROne, "dynamic")>>,
     <<DefinitionRow("P", "N1", ROne, "dynamic"), DefinitionRow("P", "N1", ROne, "static")>>,
     <<DefinitionRow("P", " ", ROne, "dynamic")>>,
     <<DefinitionRow("Q", "N1", ROne, "static")>>,
     <<DefinitionRow("P", "N1", ROne, "static"), DefinitionRow("Q", "N1", ROne, "dynamic")>>,
     <<DefinitionRow("P", "N1", ROne, "static"), DefinitionRow("Q", "N1", R(1, 2), "static")>>}
DefinitionFiles ==
    {MissingFile,
     CsvFile(AllColumns(DefinitionColumns) \ {"weight"}, <<DefinitionRow("P", "N1", ROne, "static")>>),
     CsvFile(AllColumns(DefinitionColumns), <<>>)} \cup
    {CsvFile(AllColumns(DefinitionColumns), rows) : rows \in DefinitionTables}

\* static tables whose sums lie on both sides of the 1e-9 tolerance
ToleranceTables ==
    {<<DefinitionRow("P", "N1", R(1, 2), "static"), DefinitionRow("P", "N2", w, "static")>> :
        w \in {R(499989, 1000000), R(5001, 10000),
               R(500000001, 1000000000), R(499999999, 1000000000),
               R(250000001, 500000000), R(249999999, 500000000)}}
DeriveInputs == DefinitionTables \cup ToleranceTables

MaxChildren == 3
ChildNames == <<"Equity", "Bond", "Cash", "Gold">>
Groups ==
    {PyDict([i \in 1..n |-> <<ChildNames[i], <<>>>>]) : n \in 0..MaxChildren} \cup
    {PyList([i \in 1..n |-> ChildNames[i]]) : n \in 0..MaxChildren}

CallRunAllocator ==
    /\ call = NoCall
    /\ \E h \in HierarchyFiles, m \in MappingFiles, d \in DefinitionFiles :
          call' = [NoCall EXCEPT !.fn = "run_allocator",
                      !.raw = <<"inputs", [hierarchy_csv |-> h, instrument_mapping_csv |-> m,
                                           portfolio_definitions_csv |-> d,
                                           portfolio_name |-> "P"]>>]
    /\ ret' = NoFrame
    /\ UNCHANGED <<pc, portfolio, config, cash, positions, last_reb, equity, weight_rows,
                   turnover_rows, as_of, px, pv, out, raised, result, earlier>>

InAllocator(at) == call.fn = "run_allocator" /\ ret.pc = at

AllocatorStep(frame) ==
    /\ ret' = frame
    /\ UNCHANGED <<pc, portfolio, config, cash, positions, last_reb, equity, weight_rows,
                   turnover_rows, as_of, px, pv, out, raised, result, call, earlier>>

LoadHierarchy ==
    /\ InAllocator("load_hierarchy")
    /\ LET hierarchy == load_hierarchy(call.raw[2].hierarchy_csv)
       IN  AllocatorStep(IF hierarchy.error # "none" THEN Raise(ret, hierarchy)
                         ELSE [ret EXCEPT !.pc = "load_instrument_mapping",
                                  !.hierarchy = hierarchy.value,
                                  !.valid_node_ids = _flatten_node_ids(hierarchy.value)])

LoadInstrumentMapping ==
    /\ InAllocator("load_instrument_mapping")
    /\ LET mapping_df == load_instrument_mapping(call.raw[2].instrument_mapping_csv)
       IN  AllocatorStep(IF mapping_df.error # "none" THEN Raise(ret, mapping_df)
                         ELSE [ret EXCEPT !.pc = "load_portfolio_definitions",
                                  !.mapping_df = mapping_df.value])

LoadPortfolioDefinitions ==
    /\ InAllocator("load_portfolio_definitions")
    /\ LET defs_df == load_portfolio_definitions(call.raw[2].portfolio_definitions_csv)
       IN  AllocatorStep(IF defs_df.error # "none" THEN Raise(ret, defs_df)
                         ELSE [ret EXCEPT !.pc = "select_definitions",
                                  !.defs_df = defs_df.value])

SelectDefinitions ==
    /\ InAllocator("select_definitions")
    /\ AllocatorStep(select_definitions(ret, call.raw[2].portfolio_name))

DispatchWeighting ==
    /\ InAllocator("derive_node_weights")
    /\ LET derived == _dispatch_weighting_method(ret.defs, <<>>)
       IN  AllocatorStep(IF derived.error # "none" THEN Raise(ret, derived)
                         ELSE [ret EXCEPT !.pc = "split_instruments",
                                  !.node_weights = derived.value.node_weights,
                                  !.allocation_mode = derived.value.allocation_mode])

SplitInstruments ==
    /\ InAllocator("split_instruments")
    /\ AllocatorStep(split_instruments(ret, call.raw[2].portfolio_name))

WriteTargets ==
    /\ InAllocator("write")
    /\ AllocatorStep([ret EXCEPT !.pc = "returned", !.written = TRUE,
                         !.portfolio_targets = groupby_sum(ret.rows)])

CallDeriveNodeWeights ==
    /\ call = NoCall
    /\ \E portfolio_df \in DeriveInputs :
          /\ call' = [NoCall EXCEPT !.fn = "derive_node_weights", !.raw = <<"df", portfolio_df>>]
          /\ ret' = derive_node_weights(portfolio_df)
    /\ UNCHANGED <<pc, portfolio, config, cash, positions, last_reb, equity, weight_rows,
                   turnover_rows, as_of, px, pv, out, raised, result, earlier>>

CallWeightWithinGroup ==
    /\ call = NoCall
    /\ \E group \in Groups :
          /\ call' = [NoCall EXCEPT !.fn = "weight_within_group", !.raw = group]
          /\ ret' = weight_within_group(group)
    /\ UNCHANGED <<pc, portfolio, config, cash, positions, last_reb, equity, weight_rows,
                   turnover_rows, as_of, px, pv, out, raised, result, earlier>>

CallWeightLevelOne ==
    /\ call = NoCall
    /\ \E group \in {g \in Groups : isinstance(g, {"dict"})} :
          /\ call' = [NoCall EXCEPT !.fn = "weight_level_one", !.raw = group]
          /\ ret' = weight_level_one(group[2])
    /\ UNCHANGED <<pc, portfolio, config, cash, positions, last_reb, equity, weight_rows,
                   turnover_rows, as_of, px, pv, out, raised, result, earlier>>

NextAlloc ==
    \/ CallRunAllocator
    \/ LoadHierarchy
    \/ LoadInstrumentMapping
    \/ LoadPortfolioDefinitions
    \/ SelectDefinitions
    \/ DispatchWeighting
    \/ SplitInstruments
    \/ WriteTargets
    \/ CallDeriveNodeWeights
    \/ CallWeightWithinGroup
    \/ CallWeightLevelOne

InitAlloc ==
    /\ InitCalls
    /\ config = ParsedConfig(FALSE)

SpecAlloc == InitAlloc /\ [][NextAlloc]_vars

(***************************************************************************)
(* PortfolioEngine.run statement by statement: the pipeline, the target    *)
(* weights, one overlay per iteration, then the allocation and the trades  *)
(***************************************************************************)
MaxOverlays == 2

OverlayTypes == OVERLAYS \cup {"vol_target"}

OverlayLists ==
    SeqsUpTo({[type |-> t, params |-> <<>>] : t \in OverlayTypes}, MaxOverlays)

ModelWeights ==
    { << <<"SPY", R(3, 5)>>, <<"TLT", R(2, 5)>> >>,
      << <<"SPY", R(3, 1)>>, <<"TLT", ROne>> >>,
      << <<"SPY", R(3, 2)>>, <<"AGG", R(0 - 1, 2)>> >>,
      << <<"SPY", ROne>>, <<"TLT", R(0 - 1, 1)>> >> }

EngineConfigs ==
    {[ParsedConfig(FALSE) EXCEPT !.overlays = o,
                                 !.allocation_model.params = << <<"weights", w>> >>] :
        o \in OverlayLists, w \in ModelWeights}

\* the locals of one run call: the next statement, the pipeline, the weights so far,
\* the overlays whose apply has been called, and the returned mapping
NoRun ==
    [pc |-> "build_pipeline", pipeline |-> <<>>, weights |-> <<>>, i |-> 1,
     applied |-> <<>>, returned |-> NoOut, error |-> "none"]

InRun(at) == call.fn = "PortfolioEngine.run" /\ ret.pc = at

RunStep(frame) ==
    /\ ret' = frame
    /\ UNCHANGED <<pc, portfolio, config, cash, positions, last_reb, equity, weight_rows,
                   turnover_rows, as_of, px, pv, out, raised, result, call, earlier>>

RunEnter ==
    /\ call = NoCall
    /\ \E a \in {DateAt(1), DateAt(3)}, l \in {None, DateAt(1)}, p \in RepeatPrices :
          call' = [NoCall EXCEPT !.fn = "PortfolioEngine.run", !.as_of_date = a,
                                 !.last_rebalance_date = l, !.prices = p,
                                 !.portfolio_value = R(10, 1),
                                 !.current_positions = << <<"SPY", R(6, 1)>> >>]
    /\ ret' = NoRun
    /\ UNCHANGED <<pc, portfolio, config, cash, positions, last_reb, equity, weight_rows,
                   turnover_rows, as_of, px, pv, out, raised, result, earlier>>

RunBuildPipeline ==
    /\ InRun("build_pipeline")
    /\ LET pipeline == build_pipeline(config)
       IN  RunStep(IF pipeline.error # "none"
                   THEN [ret EXCEPT !.pc = "raised", !.error = pipeline.error]
                   ELSE [ret EXCEPT !.pc = "target_weights", !.pipeline = pipeline.value])

RunTargetWeights ==
    /\ InRun("target_weights")
    /\ LET weights == target_weights(DictGet(ret.pipeline.allocation_model.params, "weights"))
       IN  RunStep(IF weights.error # "none"
                   THEN [ret EXCEPT !.pc = "raised", !.error = weights.error]
                   ELSE [ret EXCEPT !.pc = "overlays", !.weights = weights.value])

\* mutant: the overlays are visited from the last to the first
next_overlay_reversed(overlays, i) == overlays[Len(overlays) + 1 - i]
\* for overlay in pipeline.overlays
next_overlay(overlays, i) == overlays[i]

RunOverlay ==
    /\ InRun("overlays")
    /\ ret.i <= Len(ret.pipeline.overlays)
    /\ LET overlay == next_overlay(ret.pipeline.overlays, ret.i)
       IN  RunStep([ret EXCEPT !.weights = overlay_apply(overlay, ret.weights),
                               !.applied = Append(@, overlay.type),
                               !.i = @ + 1])

RunReturn ==
    /\ InRun("overlays")
    /\ ret.i > Len(ret.pipeline.overlays)
    /\ LET sr == should_rebalance(call.as_of_date, call.last_rebalance_date)
           allocations == allocate(ret.weights, call.portfolio_value, call.prices)
           target_positions ==
               [k \in 1..Len(allocations.value) |->
                   <<allocations.value[k][1], allocations.value[k][2].target_units>>]
       IN  RunStep(IF allocations.error # "none"
                   THEN [ret EXCEPT !.pc = "raised", !.error = allocations.error]
                   ELSE [ret EXCEPT !.pc = "returned",
                            !.returned =
                                [error |-> "none",
                                 as_of_date |-> isoformat(call.as_of_date),
                                 weights |-> ret.weights,
                                 allocations |-> allocations.value,
                                 should_rebalance |-> sr,
                                 trades |-> run_trades(sr, call.current_positions,
                                                       target_positions)]])

InitOverlays ==
    /\ pc = "start"
    /\ portfolio = <<>>
    /\ config \in EngineConfigs
    /\ cash = RZero
    /\ positions = <<>>
    /\ last_reb = None
    /\ equity = <<>>
    /\ weight_rows = <<>>
    /\ turnover_rows = <<>>
    /\ as_of = None
    /\ px = <<>>
    /\ pv = RZero
    /\ out = NoOut
    /\ raised = "none"
    /\ result = NoResult
    /\ call = NoCall
    /\ ret = <<>>
    /\ earlier = NoEarlier

NextOverlays ==
    \/ RunEnter
    \/ RunBuildPipeline
    \/ RunTargetWeights
    \/ RunOverlay
    \/ RunReturn

SpecOverlays == InitOverlays /\ [][NextOverlays]_vars

(***************************************************************************)
(* parse_engine_config on canonical documents with absent, valid and       *)
(* invalid fields                                                          *)
(***************************************************************************)
ModuleOpts(module_type) ==
    {PyNone, PyStr(module_type)} \cup
    {PyDict(opt("type", ty) \o opt("params", pa)) :
        ty \in {PyNone, PyStr(""), PyStr(module_type), PyFloat(ROne)},
        pa \in {PyNone, PyDict(<<>>), PyList(<<>>)}}

ParseEngineOpts ==
    {PyNone, PyStr("portfolio_engine")} \cup
    {PyDict(opt("name", n) \o opt("version", v)) :
        n \in {PyNone, PyStr(""), PyStr("portfolio_engine")},
        v \in {PyNone, PyStr(""), PyStr("0.1"), PyFloat(R(1, 10)), PyInt(1),
               PyBool(TRUE), PyList(<<>>)}}

ParseOverlayOpts ==
    {PyNone, PyNull, PyDict(<<>>), PyList(<<>>),
     PyList(<< typed_module(PyStr("risk_overlay_none"), <<>>) >>),
     PyList(<< typed_module(PyStr("risk_overlay_none"), <<>>),
               PyDict(<< <<"type", PyStr("")>> >>) >>),
     PyList(<< PyDict(<< <<"type", PyStr("regime_overlay_none")>>,
                         <<"params", PyNull>> >>) >>)}

ParseConstraintOpts ==
    {PyNone, PyNull, PyDict(<<>>),
     PyDict(<< <<"leverage", PyBool(TRUE)>> >>),
     PyDict(<< <<"leverage", PyStr("yes")>> >>),
     PyDict(<< <<"leverage", PyInt(1)>> >>),
     PyDict(<< <<"leverage", PyNull>> >>)}

ParseDocs ==
    {PyDict(opt("engine", e) \o opt("allocation_model", a) \o opt("overlays", o)
                \o opt("rebalancer", r) \o opt("allocator", l) \o opt("constraints", c)) :
        e \in ParseEngineOpts,
        a \in ModuleOpts("beta_engine_60_40"),
        o \in ParseOverlayOpts,
        r \in {PyNone, typed_module(PyStr("monthly"), <<>>),
               PyDict(<< <<"type", PyInt(1)>> >>)},
        l \in {typed_module(PyStr("capital_allocator"), <<>>),
               PyDict(<< <<"type", PyStr("capital_allocator")>>,
                         <<"params", PyStr("none")>> >>)},
        c \in ParseConstraintOpts}

CallParse ==
    /\ call = NoCall
    /\ \E x \in ParseDocs :
        /\ call' = [NoCall EXCEPT !.fn = "parse_engine_config", !.raw = x]
        /\ ret' = parse_engine_config(x)
    /\ UNCHANGED <<pc, portfolio, config, cash, positions, last_reb, equity, weight_rows,
                   turnover_rows, as_of, px, pv, out, raised, result, earlier>>

NextParse == CallParse

SpecParse == InitCalls /\ [][NextParse]_vars

(***************************************************************************)
(* Properties                                                              *)
(***************************************************************************)
ym(d) == <<d.year, d.month>>

\* a loop iteration that ran to its end
PeriodStep == pc = "loop" /\ pc' = "loop" /\ Len(weight_rows') = Len(weight_rows) + 1

\* a loop iteration in which engine.run raised
FailedPeriodStep ==
    /\ pc = "loop"
    /\ as_of' # as_of
    /\ run(config, as_of', px', pv', positions, last_reb).error # "none"

TradeNotional(trades, prices) ==
    RSum([i \in 1..Len(trades) |-> RMul(trades[i][2], DictGet(prices, trades[i][1]))])

AbsTradeNotional(trades, prices) ==
    RSum([i \in 1..Len(trades) |-> RMul(RAbs(trades[i][2]), DictGet(prices, trades[i][1]))])

\* C1: over strictly increasing period dates the loop rebalances at the first
\* period and afterwards exactly at the first period of every new (year, month);
\* a later period of the same month never rebalances.
C1_RebalanceFirstPeriodOfMonth ==
    [][PeriodStep =>
        /\ out'.should_rebalance <=> (as_of = None \/ ym(as_of') # ym(as_of))
        /\ out'.should_rebalance <=> (last_reb' = as_of')
        /\ ~out'.should_rebalance => (last_reb' = last_reb)]_vars

C1_Witness ==
    /\ pc = "loop"
    /\ Len(weight_rows) = 2
    /\ ~out.should_rebalance
    /\ ym(last_reb) = ym(as_of)
    /\ last_reb.day < as_of.day

\* C2: should_rebalance is true iff last_rebalance_date is None or the
\* (year, month) of as_of_date differs from that of last_rebalance_date; the
\* day of month plays no part.
C2_ShouldRebalanceIffMonthDiffers ==
    call.fn = "should_rebalance" =>
        (ret <=> (\/ call.last_rebalance_date = None
                  \/ call.as_of_date.year # call.last_rebalance_date.year
                  \/ call.as_of_date.month # call.last_rebalance_date.month))

C2_Witness ==
    /\ call.fn = "should_rebalance"
    /\ call.last_rebalance_date # None
    /\ ym(call.as_of_date) = ym(call.last_rebalance_date)
    /\ call.as_of_date.day # call.last_rebalance_date.day
    /\ ret = FALSE

\* C3: on a rebalance period every trade is applied exactly once: each
\* position grows by its trade's delta, cash falls by the sum of delta x price
\* at this period's prices, and last_rebalance_date becomes the period's date.
C3_TradesAppliedOnce ==
    [][(PeriodStep /\ out'.should_rebalance) =>
        /\ KeySet(positions') = KeySet(positions) \cup KeySet(out'.trades)
        /\ Len(positions') = Cardinality(KeySet(positions'))
        /\ \A s \in KeySet(positions') :
              DictGet(positions', s) = RAdd(DictGetDefault(positions, s, RZero),
                                            DictGetDefault(out'.trades, s, RZero))
        /\ cash' = RSub(cash, TradeNotional(out'.trades, px'))
        /\ last_reb' = as_of']_vars

C3_Witness ==
    /\ pc = "loop"
    /\ Len(turnover_rows) = 2
    /\ out.should_rebalance
    /\ last_reb = as_of
    /\ \E i \in 1..Len(out.trades) : out.trades[i][2] # RZero

\* C4: run returns no trades whenever should_rebalance is false, whatever the
\* prices, the portfolio value and the current positions.
C4_NoTradesOffCycle ==
    (call.fn = "run" /\ ret.error = "none" /\ ~ret.should_rebalance) => ret.trades = <<>>

C4_Witness ==
    /\ call.fn = "run"
    /\ ret.error = "none"
    /\ ~ret.should_rebalance
    /\ \E i \in 1..Len(ret.allocations) :
          ret.allocations[i][2].target_units
              # DictGetDefault(call.current_positions, ret.allocations[i][1], RZero)

\* C5: generate_trades returns exactly one entry per symbol of the union of
\* the keys of current and target, valued target (0 if absent) minus current
\* (0 if absent).
C5_TradesOverUnion ==
    call.fn = "generate_trades" =>
        /\ KeySet(ret.trades) = KeySet(call.current_positions) \cup KeySet(call.target_positions)
        /\ Len(ret.trades) = Cardinality(KeySet(ret.trades))
        /\ \A s \in KeySet(ret.trades) :
              DictGet(ret.trades, s) =
                  RSub(DictGetDefault(call.target_positions, s, RZero),
                       DictGetDefault(call.current_positions, s, RZero))

C5_Witness ==
    /\ call.fn = "generate_trades"
    /\ KeySet(call.current_positions) \ KeySet(call.target_positions) # {}
    /\ KeySet(call.target_positions) \ KeySet(call.current_positions) # {}
    /\ \E i \in 1..Len(ret.trades) : RLt(ret.trades[i][2], RZero)

\* C6: generate_trades(target, current) has the key set of
\* generate_trades(current, target) and the negated value for every key.
C6_ReversedTradesNegated ==
    call.fn = "generate_trades" =>
        /\ KeySet(ret.reversed) = KeySet(ret.trades)
        /\ Len(ret.reversed) = Len(ret.trades)
        /\ \A s \in KeySet(ret.trades) : DictGet(ret.reversed, s) = RNeg(DictGet(ret.trades, s))

C6_Witness ==
    /\ call.fn = "generate_trades"
    /\ KeySet(call.current_positions) # KeySet(call.target_positions)
    /\ \E i \in 1..Len(ret.trades) : RLt(RZero, ret.trades[i][2])
    /\ \E i \in 1..Len(ret.reversed) : RLt(RZero, ret.reversed[i][2])

\* C7: a turnover entry is appended exactly on rebalance periods and equals
\* sum(|delta| x price) / pre-trade portfolio value, or 0 when that value is 0;
\* the reported turnover is the plain sum of the entries (0 when none).
C7_TurnoverEntries ==
    [][/\ PeriodStep =>
            IF out'.should_rebalance
            THEN turnover_rows' =
                    Append(turnover_rows,
                           IF pv' = RZero THEN RZero
                           ELSE RDiv(AbsTradeNotional(out'.trades, px'), pv'))
            ELSE turnover_rows' = turnover_rows
       /\ (pc = "loop" /\ pc' = "aborted") => turnover_rows' = turnover_rows
       /\ (pc = "loop" /\ pc' = "done") =>
            /\ turnover_rows' = turnover_rows
            /\ result'.turnover = RSum(turnover_rows)]_vars

C7_Witness ==
    /\ pc = "done"
    /\ Len(turnover_rows) = 2
    /\ RLt(RZero, turnover_rows[2])
    /\ result.turnover = RAdd(turnover_rows[1], turnover_rows[2])

\* C8: after every period no held position is negative, for every portfolio
\* accepted by the loader and every strictly positive price series.
C8_NoNegativePosition ==
    \A i \in 1..Len(positions) : RLe(RZero, positions[i][2])

C10_AbortOnRunFailure ==
    [][/\ FailedPeriodStep =>
            /\ pc' = "aborted"
            /\ raised' # "none"
            /\ result' = NoResult
            /\ UNCHANGED <<equity, weight_rows, turnover_rows, cash, positions, last_reb>>
       /\ pc = "aborted" => UNCHANGED vars]_vars

C10_Witness ==
    /\ pc = "aborted"
    /\ raised # "none"
    /\ Len(equity) >= 1
    /\ result = NoResult

\* C11: the weights row recorded for a period holds, for every symbol, the
\* realized weight (units x price / portfolio value after the period's
\* trades), on rebalance periods and on off-cycle periods alike.
C11_RecordedWeightsRealized ==
    [][(PeriodStep /\ equity'[Len(equity')] # RZero) =>
        LET row == weight_rows'[Len(weight_rows')].weights
            value == equity'[Len(equity')]
        IN  \A i \in 1..Len(row) :
                LET s == _to_engine_symbol(row[i][1])
                IN  row[i][2] = RDiv(RMul(DictGet(positions', s), DictGet(px', s)), value)]_vars

\* C12: for every configured weight mapping with a strictly positive sum,
\* target_weights returns a mapping over the same symbols with each weight
\* divided by the sum, so the output sums to 1; when the sum is <= 0 it fails
\* with an error and returns nothing.
C12_TargetWeightsNormalized ==
    call.fn = "target_weights" =>
        LET total == RSum(DictValues(call.weights))
        IN  IF RLt(RZero, total)
            THEN /\ ret.error = "none"
                 /\ DictKeys(ret.value) = DictKeys(call.weights)
                 /\ \A i \in 1..Len(call.weights) :
                        ret.value[i][2] = RDiv(call.weights[i][2], total)
                 /\ RSum(DictValues(ret.value)) = ROne
            ELSE /\ ret.error = "ValueError: Configured weights must sum to a positive value"
                 /\ ret.value = <<>>

C12_Witness ==
    /\ call.fn = "target_weights"
    /\ Len(call.weights) = 3
    /\ RSum(DictValues(call.weights)) = R(3, 2)
    /\ \E i \in 1..3 : RLt(call.weights[i][2], RZero)
    /\ ret.error = "none"
    /\ ret.value # call.weights
    /\ RSum(DictValues(ret.value)) = ROne

ConfigWeights == DictGet(config.allocation_model.params, "weights")

WeightedMissing(w, p) == \E i \in 1..Len(w) : ~DictHas(p, w[i][1])

WeightedNonPositive(w, p) ==
    \E i \in 1..Len(w) : DictHas(p, w[i][1]) /\ RLe(DictGet(p, w[i][1]), RZero)

AllocationOutcome(w, v, p, e) ==
    IF RLt(v, RZero) THEN e = "ValueError: portfolio_value must be non-negative"
    ELSE /\ (WeightedMissing(w, p) /\ ~WeightedNonPositive(w, p)) => e = "KeyError: Missing price"
         /\ (WeightedNonPositive(w, p) /\ ~WeightedMissing(w, p)) =>
                e = "ValueError: Invalid non-positive price"
         /\ (WeightedNonPositive(w, p) /\ WeightedMissing(w, p)) =>
                e \in {"KeyError: Missing price", "ValueError: Invalid non-positive price"}
         /\ (~WeightedNonPositive(w, p) /\ ~WeightedMissing(w, p)) => e = "none"

\* C13: allocate fails if portfolio_value < 0, with a missing-price error if a
\* weighted symbol has no price and with an invalid-price error if a weighted
\* symbol's price is <= 0; run always calls the allocator, so the same
\* failures abort run also on dates where no rebalance is due.
C13_AllocatorFailures ==
    /\ call.fn = "allocate" =>
          AllocationOutcome(call.weights, call.portfolio_value, call.prices, ret.error)
    /\ call.fn = "run" =>
          AllocationOutcome(ConfigWeights, call.portfolio_value, call.prices, ret.error)

C13_Witness ==
    /\ call.fn = "run"
    /\ ~should_rebalance(call.as_of_date, call.last_rebalance_date)
    /\ ~RLt(call.portfolio_value, RZero)
    /\ DictHas(call.prices, "SPY") /\ RLt(RZero, DictGet(call.prices, "SPY"))
    /\ DictHas(call.prices, "TLT") /\ DictGet(call.prices, "TLT") = RZero
    /\ ret.error = "ValueError: Invalid non-positive price"

AllocationsOf(w, v, p, allocations) ==
    /\ KeySet(allocations) = KeySet(w)
    /\ Len(allocations) = Cardinality(KeySet(w))
    /\ \A s \in KeySet(w) :
          LET a == DictGet(allocations, s)
          IN  /\ a.weight = DictGet(w, s)
              /\ a.target_notional = RMul(v, DictGet(w, s))
              /\ a.target_units = RDiv(RMul(v, DictGet(w, s)), DictGet(p, s))

\* C14: for valid inputs allocate returns one entry for exactly each weighted
\* symbol with weight = the input weight, target_notional = portfolio_value x
\* weight and target_units = target_notional / price, unrounded; the target
\* positions run derives its trades from are exactly these target_units.
C14_AllocationArithmetic ==
    /\ (call.fn = "allocate" /\ ret.error = "none") =>
          AllocationsOf(call.weights, call.portfolio_value, call.prices, ret.value)
    /\ (call.fn = "run" /\ ret.error = "none") =>
          /\ AllocationsOf(ret.weights, call.portfolio_value, call.prices, ret.allocations)
          /\ ret.should_rebalance =>
                \A s \in KeySet(ret.allocations) :
                    DictGet(ret.trades, s) =
                        RSub(DictGet(ret.allocations, s).target_units,
                             DictGetDefault(call.current_positions, s, RZero))

C14_Witness ==
    /\ call.fn = "allocate"
    /\ ret.error = "none"
    /\ Len(ret.value) = 3
    /\ call.portfolio_value = R(10, 1)
    /\ \E i \in 1..3 : ret.value[i][2].target_units = R(5, 3)
    /\ \E i \in 1..3 : ret.value[i][2].target_units = R(10, 3)

\* C15: every price of the prices mapping given to run must be strictly
\* positive: a zero or negative price for any symbol of the mapping, weighted
\* or not, makes run fail.
C15_EveryPricePositive ==
    (call.fn = "run" /\ \E i \in 1..Len(call.prices) : RLe(call.prices[i][2], RZero)) =>
        ret.error # "none"

SameOutcome(a, b) ==
    IF a.error = "none" /\ b.error = "none"
    THEN /\ a.as_of_date = b.as_of_date
         /\ DictEq(a.weights, b.weights)
         /\ DictEq(a.allocations, b.allocations)
         /\ a.should_rebalance = b.should_rebalance
         /\ DictEq(a.trades, b.trades)
    ELSE a.error # "none" /\ b.error # "none"

\* the inputs run accepts: a non-negative value and a strictly positive price
\* for every weighted symbol
ValidRunInput(w, v, p) ==
    ~RLt(v, RZero) /\ ~WeightedMissing(w, p) /\ ~WeightedNonPositive(w, p)

C17_NormalizeIdempotent ==
    (call.fn = "normalize_legacy_config" /\ ret.once.error = "none") =>
        /\ ret.twice = ret.once
        /\ py_in("allocation_model", call.raw) => ret.once.value = call.raw

C17_Witness ==
    /\ call.fn = "normalize_legacy_config"
    /\ ~py_in("allocation_model", call.raw)
    /\ py_in("strategy", call.raw)
    /\ py_in("weights", py_get(call.raw, "strategy", PyNone))
    /\ ret.once.error = "none"
    /\ py_in("allocation_model", ret.once.value)
    /\ ~py_in("strategy", ret.once.value)
    /\ ret.twice = ret.once

\* C18: the engine's config is immutable once parsed: no operation after
\* parse_engine_config (run, the backtest loop _simulate_strategy) changes any
\* field of it, allocation_model.params and its weights included.
C18_ConfigImmutable == [][config' = config]_vars

Resolves(cfg) ==
    /\ cfg.allocation_model.type \in ALLOCATION_MODELS
    /\ \A i \in 1..Len(cfg.overlays) : cfg.overlays[i].type \in OVERLAYS
    /\ cfg.rebalancer.type \in REBALANCERS
    /\ cfg.allocator.type \in ALLOCATORS

\* C20: every module type of a parsed EngineConfig resolves in the registry:
\* a document naming an unregistered allocation model, overlay, rebalancer or
\* allocator is rejected, so from_yaml never yields a PortfolioEngine that
\* holds an unresolvable type.
C20_ParsedTypesResolve ==
    (call.fn = "from_yaml" /\ ret.error = "none") => Resolves(ret.value)

NonEmptyStr(x) == x[1] = "str" /\ x[2] # ""

BadTypedModule(m) ==
    \/ m[1] # "dict"
    \/ ~NonEmptyStr(py_get(m, "type", PyNone))
    \/ (py_in("params", m) /\ py_get(m, "params", PyNone)[1] # "dict")

\* the violations C21 lists; a numeric version is an int or a float
BadDocument(d) ==
    LET e == py_get(d, "engine", PyNone)
        o == py_get(d, "overlays", PyNone)
        c == py_get(d, "constraints", PyNone)
    IN  \/ e[1] # "dict"
        \/ ~NonEmptyStr(py_get(e, "name", PyNone))
        \/ LET v == py_get(e, "version", PyNone)
           IN  ~NonEmptyStr(v) /\ v[1] \notin {"int", "float"}
        \/ BadTypedModule(py_get(d, "allocation_model", PyNone))
        \/ BadTypedModule(py_get(d, "rebalancer", PyNone))
        \/ BadTypedModule(py_get(d, "allocator", PyNone))
        \/ (py_in("overlays", d) /\ o[1] # "list")
        \/ (py_in("overlays", d) /\ o[1] = "list"
                /\ \E i \in 1..Len(o[2]) : BadTypedModule(o[2][i]))
        \/ (py_in("constraints", d) /\ c[1] # "dict")
        \/ (py_in("constraints", d) /\ c[1] = "dict" /\ py_in("leverage", c)
                /\ py_get(c, "leverage", PyNone)[1] # "bool")

\* C21: parse_engine_config fails whenever a typed module's type is not a
\* non-empty string or its params not a mapping, engine.name or engine.version
\* is not a non-empty string (a numeric version being coerced), overlays is
\* not a list or constraints.leverage is not a boolean; a present but invalid
\* value is never replaced by a default.
C21_ParseRejectsInvalid ==
    (call.fn = "parse_engine_config" /\ BadDocument(call.raw)) => ret.error # "none"

\* the rows of a definition table are all static and carry numeric weights
StaticNumeric(df) ==
    /\ df # <<>>
    /\ \A i \in 1..Len(df) : df[i].weight_type = "static" /\ ~isna(df[i].weight)

\* the weight a table configures for a node_id: that of its last row for it
ConfiguredWeight(df, node_id) ==
    df[CHOOSE i \in 1..Len(df) :
          /\ df[i].node_id = node_id
          /\ \A j \in (i + 1)..Len(df) : df[j].node_id # node_id].weight

TableTotal(df) == RSum([i \in 1..Len(df) |-> df[i].weight])

\* C22: derive_node_weights accepts a static definition table with numeric weights
\* exactly when |sum - 1| <= 1e-9, and then returns every node_id with its configured
\* weight unchanged under allocation mode "static"; any other sum, 0.999989 and 1.0001
\* among them, raises the sum error and returns no weights.
C22_StaticTolerance ==
    (call.fn = "derive_node_weights" /\ StaticNumeric(call.raw[2])) =>
        LET df == call.raw[2]
            total == TableTotal(df)
        IN  /\ (ret.error = "none") <=> WithinTolerance(RSub(total, ROne))
            /\ ret.error = "none" =>
                  /\ ret.value.allocation_mode = "static"
                  /\ KeySet(ret.value.node_weights) = {df[i].node_id : i \in 1..Len(df)}
                  /\ \A k \in KeySet(ret.value.node_weights) :
                        DictGet(ret.value.node_weights, k) = ConfiguredWeight(df, k)
            /\ ret.error # "none" =>
                  /\ ret.error = "Static portfolio weights must sum to 1.0"
                  /\ ret.value = total
            /\ total \in {R(999989, 1000000), R(10001, 10000)} => ret.error # "none"

\* a static table whose sum is 1 + 1e-9 is accepted with its weights unchanged
C22_Witness ==
    /\ call.fn = "derive_node_weights"
    /\ StaticNumeric(call.raw[2])
    /\ TableTotal(call.raw[2]) = R(1000000001, 1000000000)
    /\ ret.error = "none"
    /\ DictGet(ret.value.node_weights, "N2") = R(500000001, 1000000000)

\* the instruments the mapping file lists for a node_id
MappedInstruments(node_id) ==
    LET mapping == call.raw[2].instrument_mapping_csv.rows
    IN  {mapping[i].instrument_id : i \in {i \in 1..Len(mapping) : mapping[i].node_id = node_id}}

TargetTotal(targets) ==
    LET RECURSIVE Total(_)
        Total(S) == IF S = {} THEN RZero
                    ELSE LET r == CHOOSE r \in S : TRUE
                         IN  RAdd(r.target_weight, Total(S \ {r}))
    IN  Total(targets)

EqualSplit ==
    /\ \A r \in ret.portfolio_targets :
          r.target_weight = RDiv(DictGet(ret.node_weights, r.node_id),
                                 R(Cardinality(MappedInstruments(r.node_id)), 1))
    /\ \A node_id \in KeySet(ret.node_weights) :
          {r.instrument_id : r \in {r \in ret.portfolio_targets : r.node_id = node_id}}
              = MappedInstruments(node_id)
    /\ TargetTotal(ret.portfolio_targets) = RSum(DictValues(ret.node_weights))
    /\ TargetTotal(ret.portfolio_targets) = ROne

\* C23: when run_allocator returns, every instrument mapped to a selected node holds
\* node_weight / k in the written targets, k being the number of instruments mapped to
\* the node, and the target weights sum to the sum of the node weights, which is 1.
C23_EqualSplit ==
    (call.fn = "run_allocator" /\ ret.pc = "returned") => EqualSplit

\* the same statement for mapping files that list no instrument twice under one node
C23_EqualSplitDistinctRows ==
    (/\ call.fn = "run_allocator"
     /\ ret.pc = "returned"
     /\ LET mapping == call.raw[2].instrument_mapping_csv.rows
        IN  \A i, j \in 1..Len(mapping) :
               (mapping[i].node_id = mapping[j].node_id
                   /\ mapping[i].instrument_id = mapping[j].instrument_id) => i = j)
        => EqualSplit

\* the three input files pass their loaders and hold a definition of the portfolio
LoadersPass ==
    /\ load_hierarchy(call.raw[2].hierarchy_csv).error = "none"
    /\ load_instrument_mapping(call.raw[2].instrument_mapping_csv).error = "none"
    /\ load_portfolio_definitions(call.raw[2].portfolio_definitions_csv).error = "none"
    /\ \E i \in 1..Len(call.raw[2].portfolio_definitions_csv.rows) :
          call.raw[2].portfolio_definitions_csv.rows[i].portfolio_name
              = call.raw[2].portfolio_name

\* the node_id values of the selected portfolio's rows
ReferencedNodes ==
    LET rows == call.raw[2].portfolio_definitions_csv.rows
    IN  {rows[i].node_id : i \in {i \in 1..Len(rows) :
            rows[i].portfolio_name = call.raw[2].portfolio_name}}

HierarchyNodes ==
    LET rows == call.raw[2].hierarchy_csv.rows
    IN  {strip(rows[i].node_id) : i \in 1..Len(rows)}

MappedNodes ==
    LET rows == call.raw[2].instrument_mapping_csv.rows
    IN  {rows[i].node_id : i \in 1..Len(rows)}

Terminated == ret.pc \in {"returned", "raised"}
NoOutput == ~ret.written /\ ret.portfolio_targets = {} /\ ret.pc \notin {"write", "returned"}

\* C24: with loadable files, run_allocator raises and writes no portfolio_targets when
\* the portfolio references a node_id the hierarchy does not hold (the unknown values
\* are reported in increasing order, each once) and when a selected node_id has no row
\* in the instrument mapping (the mapping error, unless the weights were rejected first).
C24_MissingNodesFail ==
    (call.fn = "run_allocator" /\ LoadersPass) =>
        LET unknown == ReferencedNodes \ HierarchyNodes
            unmapped == ReferencedNodes \ MappedNodes
        IN  /\ unknown # {} =>
                 /\ NoOutput
                 /\ Terminated =>
                       /\ ret.error = "Portfolio references unknown node_id values"
                       /\ {ret.value[i] : i \in 1..Len(ret.value)} = unknown
                       /\ \A i \in 1..(Len(ret.value) - 1) :
                             StrRank(ret.value[i]) < StrRank(ret.value[i + 1])
            /\ (unknown = {} /\ unmapped # {}) =>
                 /\ NoOutput
                 /\ Terminated =>
                       /\ ret.error # "none"
                       /\ ret.node_weights # <<>> =>
                             ret.error \in {"No instrument mappings found for selected node_ids",
                                            "No instrument mapping found for node_id"}
                       /\ ret.error = "No instrument mapping found for node_id" =>
                             ret.value \in unmapped

\* a definition that lists N2 before N1 against a hierarchy holding neither fails with
\* the unknown values in increasing order
C24_Witness ==
    /\ call.fn = "run_allocator"
    /\ LoadersPass
    /\ ret.pc = "raised"
    /\ call.raw[2].portfolio_definitions_csv.rows[1].node_id = "N2"
    /\ ret.error = "Portfolio references unknown node_id values"
    /\ ret.value = <<"N1", "N2">>
    /\ ~ret.written

HasBlank(file, cols) ==
    \E i \in 1..Len(file.rows) : \E c \in cols : file.rows[i][c] \in {"", " "}

\* the conditions each loader tests, in the order it tests them, with the error of each
HierarchyChecks(file) ==
    << <<~file.exists, "Hierarchy file not found">>,
       <<~(AllColumns(REQUIRED_COLUMNS) \subseteq file.columns),
         "Malformed hierarchy CSV: missing required columns">>,
       <<file.rows = <<>>, "Malformed hierarchy CSV: file contains no rows">>,
       <<HasBlank(file, AllColumns(REQUIRED_COLUMNS)),
         "Malformed hierarchy CSV: column contains blank values">>,
       <<\E i, j \in 1..Len(file.rows) : i # j /\ file.rows[i].node_id = file.rows[j].node_id,
         "Malformed hierarchy CSV: node_id must be unique">> >>

MappingChecks(file) ==
    << <<~file.exists, "Instrument mapping not found">>,
       <<~(AllColumns(MappingColumns) \subseteq file.columns),
         "Malformed instrument mapping: missing required columns">>,
       <<file.rows = <<>>, "Malformed instrument mapping: file contains no rows">>,
       <<HasBlank(file, AllColumns(MappingColumns)),
         "Malformed instrument mapping: column contains blank values">> >>

DefinitionChecks(file) ==
    << <<~file.exists, "Portfolio definitions not found">>,
       <<~(AllColumns(DefinitionColumns) \subseteq file.columns),
         "Malformed portfolio definitions: missing required columns">>,
       <<file.rows = <<>>, "Malformed portfolio definitions: file contains no rows">>,
       <<HasBlank(file, {"portfolio_name", "node_id", "weight_type"}),
         "Malformed portfolio definitions: column contains blank values">>,
       <<\E i \in 1..Len(file.rows) : file.rows[i].weight_type \notin {"static", "rule_based"},
         "Invalid weight_type values">>,
       <<\E i, j \in 1..Len(file.rows) :
            /\ i # j
            /\ file.rows[i].portfolio_name = file.rows[j].portfolio_name
            /\ file.rows[i].node_id = file.rows[j].node_id,
         "Duplicate (portfolio_name, node_id) entries found">> >>

\* the checks of the three loaders in the order run_allocator calls them
TableChecks ==
    HierarchyChecks(call.raw[2].hierarchy_csv)
        \o MappingChecks(call.raw[2].instrument_mapping_csv)
        \o DefinitionChecks(call.raw[2].portfolio_definitions_csv)

Violated == {i \in 1..Len(TableChecks) : TableChecks[i][1]}
FirstViolated == CHOOSE i \in Violated : \A j \in Violated : i <= j

NothingComputed ==
    /\ ret.node_weights = <<>>
    /\ ret.rows = <<>>
    /\ ret.portfolio_targets = {}
    /\ ~ret.written

ValidationFirst ==
    call.fn = "run_allocator" =>
        /\ ~NothingComputed => Violated = {}
        /\ Violated # {} =>
              /\ ret.pc \in {"load_hierarchy", "load_instrument_mapping",
                             "load_portfolio_definitions", "raised"}
              /\ ret.pc = "raised" => ret.error = TableChecks[FirstViolated][2]
        /\ ret.pc \in {"derive_node_weights", "split_instruments", "write", "returned"}
              => Violated = {}

\* C25: in every step of run_allocator a node weight, an instrument row or the output
\* changes only after the three loaders have returned with every table check passed;
\* a run whose tables violate a check stops in the loaders with the error of the first
\* violated check in loading order, with no weight computed and nothing written.
C25_ValidationBeforeWeights ==
    [][/\ ValidationFirst'
       /\ (call.fn = "run_allocator" /\ ret'.node_weights # ret.node_weights)
             => ret.pc = "derive_node_weights"
       /\ (call.fn = "run_allocator" /\ ret'.rows # ret.rows)
             => ret.pc = "split_instruments"
       /\ (call.fn = "run_allocator" /\ ret'.written # ret.written)
             => ret.pc = "write"]_vars

\* a hierarchy file with a blank level1 cell and a repeated node_id stops the run at
\* the blank cell, the earlier of the two checks
C25_Witness ==
    /\ call.fn = "run_allocator"
    /\ Cardinality(Violated) >= 2
    /\ HierarchyChecks(call.raw[2].hierarchy_csv)[5][1]
    /\ ret.pc = "raised"
    /\ ret.error = "Malformed hierarchy CSV: column contains blank values"
    /\ ret.value = "level1"
    /\ NothingComputed

\* the keys an equal-weight call has to weight: a mapping's keys, a list's positions
SiblingKeys(group) ==
    IF group[1] = "dict" THEN KeySet(group[2])
    ELSE {ToString(i - 1) : i \in 1..Len(group[2])}

RuleBased(df) ==
    /\ df # <<>>
    /\ \A i \in 1..Len(df) : df[i].weight_type = "rule_based"

\* C26: weight_level_one and weight_within_group return the empty mapping for zero
\* children and otherwise one entry per child, each exactly 1/n, so the entries sum to
\* 1; the rule_based branch of derive_node_weights gives every node_id of an n-row
\* table the same weight 1/n, summing to 1 when the node_ids are distinct.
C26_EqualWeights ==
    /\ call.fn \in {"weight_within_group", "weight_level_one"} =>
          LET n == Len(call.raw[2])
          IN  /\ n = 0 => ret = <<>>
              /\ n >= 1 =>
                    /\ KeySet(ret) = SiblingKeys(call.raw)
                    /\ Len(ret) = n
                    /\ \A k \in KeySet(ret) : DictGet(ret, k) = R(1, n)
                    /\ RSum(DictValues(ret)) = ROne
    /\ (call.fn = "derive_node_weights" /\ RuleBased(call.raw[2])) =>
          LET df == call.raw[2]
              node_ids == {df[i].node_id : i \in 1..Len(df)}
          IN  /\ ret.error = "none"
              /\ ret.value.allocation_mode = "rule_based_stub"
              /\ KeySet(ret.value.node_weights) = node_ids
              /\ \A k \in node_ids : DictGet(ret.value.node_weights, k) = R(1, Len(df))
              /\ Cardinality(node_ids) = Len(df)
                    => RSum(DictValues(ret.value.node_weights)) = ROne

\* a list of three children is weighted one third each
C26_Witness ==
    /\ call.fn = "weight_within_group"
    /\ call.raw[1] = "list"
    /\ Len(call.raw[2]) = 3
    /\ ret = << <<"0", R(1, 3)>>, <<"1", R(1, 3)>>, <<"2", R(1, 3)>> >>

\* the allocation model's target weights for the engine's configuration
ModelTargetWeights ==
    target_weights(DictGet(config.allocation_model.params, "weights")).value

\* C27: every overlay iteration of run calls apply on the overlay at the next position
\* of the config's overlays list and hands it the weights the previous one returned
\* (the first gets the allocation model's target weights); when run returns, the
\* overlays applied are those of the config in the config's order, and with the no-op
\* overlays the returned weights are the allocation model's target weights.
C27_OverlaysInConfigOrder ==
    [][/\ (call.fn = "PortfolioEngine.run" /\ ret.pc = "overlays" /\ ret'.pc = "overlays") =>
             LET k == Len(ret.applied) + 1
             IN  /\ ret'.applied = Append(ret.applied, config.overlays[k].type)
                 /\ ret'.weights = overlay_apply(config.overlays[k], ret.weights)
                 /\ k = 1 => ret.weights = ModelTargetWeights
       /\ (call.fn = "PortfolioEngine.run" /\ ret'.pc = "returned") =>
             /\ ret'.applied = [k \in 1..Len(config.overlays) |-> config.overlays[k].type]
             /\ ret'.returned.weights = ret.weights
             /\ ret'.returned = run(config, call.as_of_date, call.prices, call.portfolio_value,
                                    call.current_positions, call.last_rebalance_date)
             /\ (\A k \in 1..Len(config.overlays) : config.overlays[k].type \in OVERLAYS)
                   => ret'.returned.weights = ModelTargetWeights]_vars

\* a run configured with the regime overlay before the risk overlay has applied them
\* in that order and returns the normalised 3:1 target weights
C27_Witness ==
    /\ call.fn = "PortfolioEngine.run"
    /\ ret.pc = "returned"
    /\ ret.applied = <<"regime_overlay_none", "risk_overlay_none">>
    /\ ret.returned.weights = << <<"SPY", R(3, 4)>>, <<"TLT", R(1, 4)>> >>

\* cash + sum of units x price over the held positions
Valuation(c, pos, prices) ==
    RAdd(c, RSum([i \in 1..Len(pos) |-> RMul(pos[i][2], DictGet(prices, pos[i][1]))]))

\* C28: at every processed period the equity recorded for the period, the post-trade
\* cash plus positions at this period's prices, equals the portfolio value computed
\* before the trades at the same prices, on rebalance and off-cycle periods alike.
C28_SelfFinancing ==
    [][PeriodStep =>
        /\ equity' = Append(equity, Valuation(cash', positions', px'))
        /\ pv' = Valuation(cash, positions, px')
        /\ equity'[Len(equity')] = pv']_vars

\* a second-period rebalance with a non-zero trade at changed prices keeps the value
C28_Witness ==
    /\ pc = "loop"
    /\ Len(equity) = 2
    /\ out.should_rebalance
    /\ \E i \in 1..Len(out.trades) : out.trades[i][2] # RZero
    /\ equity[2] # equity[1]
    /\ equity[2] = pv
    /\ equity[2] = Valuation(cash, positions, px)

\* C29: a period on which run reports no rebalance leaves cash, every position and
\* last_rebalance_date as they were and appends no turnover entry; every processed
\* period, rebalancing or not, appends exactly one equity value and one weights row,
\* so the equity series and the weights history have one entry per processed period.
C29_OffCycleFrame ==
    [][/\ (pc = "loop" /\ pc' = "loop" /\ as_of' # as_of) =>
             /\ Len(equity') = Len(equity) + 1
             /\ SubSeq(equity', 1, Len(equity)) = equity
             /\ Len(weight_rows') = Len(weight_rows) + 1
             /\ SubSeq(weight_rows', 1, Len(weight_rows)) = weight_rows
             /\ weight_rows'[Len(weight_rows')].date = isoformat(as_of')
             /\ ~out'.should_rebalance =>
                   /\ cash' = cash
                   /\ positions' = positions
                   /\ last_reb' = last_reb
                   /\ turnover_rows' = turnover_rows
       /\ Len(equity') = Len(weight_rows')
       /\ (pc = "loop" /\ as_of' = as_of) => (equity' = equity /\ weight_rows' = weight_rows)]_vars

\* a second period in the month of the first changes nothing but the two histories,
\* and values the held positions at its own prices
C29_Witness ==
    /\ pc = "loop"
    /\ Len(equity) = 2
    /\ Len(weight_rows) = 2
    /\ Len(turnover_rows) = 1
    /\ ~out.should_rebalance
    /\ last_reb # as_of
    /\ equity[2] # equity[1]

\* C30: right after a rebalance period every weighted symbol holds the period's target
\* units, pre-trade portfolio value x weight / price, and cash is the pre-trade value
\* x (1 - sum of the weights), which is 0 as the weights sum to 1; no step of the loop
\* changes the set of symbols held.
C30_PositionsAtTarget ==
    [][/\ (PeriodStep /\ out'.should_rebalance) =>
             LET total == RSum(DictValues(out'.weights))
             IN  /\ \A s \in KeySet(out'.weights) :
                       DictGet(positions', s) =
                           RDiv(RMul(pv', DictGet(out'.weights, s)), DictGet(px', s))
                 /\ cash' = RMul(pv', RSub(ROne, total))
                 /\ total = ROne
                 /\ cash' = RZero
       /\ pc = "loop" =>
             /\ KeySet(positions') = KeySet(positions)
             /\ Len(positions') = Len(positions)]_vars

\* a second rebalance at changed prices moves non-zero holdings to the new targets
C30_Witness ==
    /\ pc = "loop"
    /\ Len(turnover_rows) = 2
    /\ out.should_rebalance
    /\ RLt(RZero, turnover_rows[2])
    /\ cash = RZero
    /\ \A s \in KeySet(out.weights) :
          DictGet(positions, s) = RDiv(RMul(pv, DictGet(out.weights, s)), DictGet(px, s))

====
